---- MODULE Spec2Model ----
(***************************************************************************)
(* Model of the RAG retrieval pipeline of app/services/rag.py:             *)
(* build_rag_query, _apply_relevance_scoring, retrieve_relevant_context,   *)
(* format_rag_context, get_rag_enhanced_prompt and the two collaborators   *)
(* generate_query_embedding and search_similar_chunks.                     *)
(*                                                                         *)
(* Encoding of Python values                                               *)
(*   None (for str)      the string "None"                                 *)
(*   Optional[int/float] <<>> for None, <<n>> for the number n             *)
(*   similarity, threshold    the integer n for the float the literal      *)
(*   arguments                n/SimScale denotes                           *)
(*   adjusted_similarity,     floats [neg, m, e], computed with the        *)
(*   thresholds of searches   rounding of IEEE 754 binary64                *)
(*   content             sequence of one-character strings                 *)
(*   formatted text      sequence of tokens (characters and literal pieces *)
(*                       of the templates), "" is <<>>                     *)
(*   year                <<>> for None, <<cs>> for the string with         *)
(*                       characters cs                                     *)
(*   dict key missing    the string "absent" (flags) or <<>> (numbers)     *)
(***************************************************************************)
EXTENDS Integers, Sequences, FiniteSets, TLC

VARIABLES
    pc,                   \* position of the retrieve call
    paper_format,         \* argument of retrieve
    section,              \* argument of retrieve
    topics,               \* argument of retrieve
    difficulty,           \* argument of retrieve
    limit_arg,            \* argument limit as passed by the caller
    threshold_arg,        \* argument similarity_threshold as passed
    limit,                \* local limit after line 182
    similarity_threshold, \* local similarity_threshold after line 183
    current_year,         \* datetime.now().year
    calls,                \* collaborator calls of this retrieve, in order
    results,              \* local results (EmbeddingRecords collected)
    outcome,              \* "none" | "returned" | "raised"
    ret,                  \* the list retrieve returned
    sc_pc,                \* position of a direct scorer call
    sc_in,                \* the scorer's input as it was at the call
    sc_chunks,            \* the list object passed to the scorer, as it is now
    sc_target_section,    \* scorer argument
    sc_target_paper_format, \* scorer argument
    sc_out,               \* the list the scorer returned
    sc_calls,             \* scorer calls made so far on this list
    fm_pc,                \* position of a direct formatter call
    fm_in,                \* the formatter's argument chunks
    fm_lines,             \* the formatter's local list lines
    fm_out,               \* the string the formatter returned
    en_pc,                \* position of a prompt enhancer call
    en_base_prompt,       \* enhancer argument base_prompt
    en_max_context_chunks, \* enhancer argument max_context_chunks
    en_out,               \* the string the enhancer returned
    q_log,                \* direct calls of build_rag_query with their results
    supabase_client,      \* module-level _supabase_client of app/db/supabase.py
    backend,              \* what the database did in each real search call
    cc,                   \* the retrieve calls that run concurrently
    ctx_log               \* the passes of scoring and formatting made so far

vars == <<pc, paper_format, section, topics, difficulty, limit_arg,
          threshold_arg, limit, similarity_threshold, current_year, calls,
          results, outcome, ret, sc_pc, sc_in, sc_chunks,
          sc_target_section, sc_target_paper_format, sc_out, sc_calls,
          fm_pc, fm_in, fm_lines, fm_out,
          en_pc, en_base_prompt, en_max_context_chunks, en_out,
          q_log, supabase_client, backend, cc, ctx_log>>

retrieveVars == <<pc, paper_format, section, topics, difficulty, limit_arg,
                  threshold_arg, limit, similarity_threshold, calls,
                  results, outcome, ret>>

scoreVars == <<sc_pc, sc_in, sc_chunks, sc_target_section,
               sc_target_paper_format, sc_out, sc_calls>>

formatVars == <<fm_pc, fm_in, fm_lines, fm_out>>

enhanceVars == <<en_pc, en_base_prompt, en_max_context_chunks, en_out>>

auxVars == <<q_log, supabase_client, backend, cc, ctx_log>>

----------------------------------------------------------------------------
(* Bounds of the model *)

MaxResp == 2          \* longest list one vector_search call returns
MaxLimit == 2         \* largest explicit limit a caller passes
MaxChunks == 3        \* longest list passed to the scorer directly
MaxScoreCalls == 2    \* scorer calls made on one list, one after the other

----------------------------------------------------------------------------
(* Units and configuration (RAG_CONFIG) *)

SimScale == 1000

config_similarity_threshold == 500     \* 0.5
max_context_chunks == 5
recency_boost_years == 3
RecencyNum == 11      \* recency_boost_factor 1.1 = 11/10
RecencyDen == 10
SectionNum == 23      \* section_match_boost 1.15 = 23/20
SectionDen == 20
PaperNum == 21        \* paper match factor 1.05 = 21/20
PaperDen == 20
RelaxNum == 7         \* strategy 3 threshold factor 0.7 = 7/10
RelaxDen == 10
AdjScale == SimScale * RecencyDen * SectionDen * PaperDen
KeyPrefixLen == 100   \* content[:100] in the deduplication key

None == "None"
Absent == "absent"

----------------------------------------------------------------------------
(* Python helpers *)

Min(a, b) == IF a <= b THEN a ELSE b
Max(a, b) == IF a >= b THEN a ELSE b

\* truthiness of an Optional[str]
TruthyStr(s) == s # None /\ s # ""

\* truthiness of an Optional[number] encoded as <<>> or <<n>>
TruthyNum(x) == Len(x) = 1 /\ x[1] # 0

\* x or d
OrDefault(x, d) == IF TruthyNum(x) THEN x[1] ELSE d

\* s[:n] for a list or string s
SlicePrefix(s, n) ==
    IF n >= 0 THEN SubSeq(s, 1, Min(n, Len(s)))
    ELSE SubSeq(s, 1, Max(Len(s) + n, 0))

Rep(c, n) == [i \in 1..n |-> c]

SeqsUpTo(S, n) == UNION {[1..k -> S] : k \in 0..n}

\* sep.join(parts) for strings parts
RECURSIVE JoinTokens(_, _)
JoinTokens(sep, parts) ==
    IF Len(parts) = 0 THEN <<>>
    ELSE IF Len(parts) = 1 THEN parts[1]
    ELSE parts[1] \o sep \o JoinTokens(sep, Tail(parts))

Digits == {"0", "1", "2", "3", "4", "5", "6", "7", "8", "9"}

DigitVal(c) ==
    CASE c = "0" -> 0 [] c = "1" -> 1 [] c = "2" -> 2 [] c = "3" -> 3
      [] c = "4" -> 4 [] c = "5" -> 5 [] c = "6" -> 6 [] c = "7" -> 7
      [] c = "8" -> 8 [] c = "9" -> 9

\* the characters int() strips from both ends of its argument: the six of
\* ASCII (the vertical tab U+000B written as itself) and the two others of
\* Latin-1, the next-line character U+0085 and the no-break space U+00A0,
\* written as themselves.  The file, group, record and unit separators
\* U+001C to U+001F are not stripped.  (A TLA+ string holds characters up to
\* U+00FF only, so that the white space and the decimal digits beyond
\* Latin-1, which int() takes too, cannot be written here.)
Whitespace == {" ", "\t", "\n", "\r", "\f", "", "", " "}

\* the literal without the surrounding white space: whether it starts with
\* a minus sign, and what follows the sign when there is one
IntLiteral(cs) ==
    LET I == {i \in 1..Len(cs) : cs[i] \notin Whitespace}
        t == IF I = {} THEN <<>>
             ELSE SubSeq(cs, CHOOSE i \in I : \A j \in I : i <= j,
                             CHOOSE i \in I : \A j \in I : i >= j)
    IN  [neg |-> Len(t) > 0 /\ t[1] = "-",
         body |-> IF Len(t) > 0 /\ t[1] \in {"+", "-"} THEN Tail(t) ELSE t]

IsDigit(c) == c \in Digits

\* the longest run of digits int() converts (sys.int_info
\* .default_max_str_digits of Python 3.11, which the repository leaves as it
\* is): a literal of more digits raises ValueError.  The leading zeros
\* count; the sign, the underscores and the white space do not.
int_max_str_digits == 4300

\* int(year_str) succeeds (no ValueError): optional white space, an
\* optional sign, then decimal digits, single underscores allowed between
\* two digits, then optional white space; at most int_max_str_digits
\* digits.
IntParses(cs) ==
    LET b == IntLiteral(cs).body
    IN  /\ Len(b) > 0
        /\ b[1] \in Digits
        /\ b[Len(b)] \in Digits
        /\ \A i \in 1..Len(b) : b[i] \in Digits \cup {"_"}
        /\ \A i \in 1..(Len(b) - 1) : ~(b[i] = "_" /\ b[i + 1] = "_")
        /\ Len(SelectSeq(b, IsDigit)) <= int_max_str_digits

\* int(year_str) for a literal that parses.  A Python int has no largest
\* value, so the result is kept as str(int(year_str)) spells it: whether it
\* is negative, and its decimal digits without leading zeros.
IntOf(cs) ==
    LET lit == IntLiteral(cs)
        ds == SelectSeq(lit.body, IsDigit)
        N == {i \in 1..Len(ds) : ds[i] # "0"}
    IN  [neg |-> lit.neg /\ N # {},
         digits |-> IF N = {} THEN <<"0">>
                    ELSE SubSeq(ds, CHOOSE i \in N : \A j \in N : i <= j,
                                    Len(ds))]

\* the value of a run of digits
RECURSIVE DigitsValue(_)
DigitsValue(b) ==
    IF Len(b) = 0 THEN 0
    ELSE 10 * DigitsValue(SubSeq(b, 1, Len(b) - 1)) + DigitVal(b[Len(b)])

\* the ints of at most this many digits are compared by value; every
\* integer n that v is compared with below has fewer digits
SmallDigits == 9

\* v >= n, for an int v as IntOf gives it and an integer n of fewer than
\* SmallDigits digits
IntGe(v, n) ==
    IF Len(v.digits) > SmallDigits THEN ~v.neg
    ELSE (IF v.neg THEN 0 - DigitsValue(v.digits)
          ELSE DigitsValue(v.digits)) >= n

----------------------------------------------------------------------------
(* Python floats: IEEE 754 binary64, round to nearest, ties to even.  A     *)
(* float is [neg, m, e] with value m * 2^e, where the significand m is zero *)
(* or 2^52 <= m < 2^53 and is written as four limbs of 14 bits, lowest      *)
(* first.  (The values of this program are far from the subnormal range    *)
(* and from overflow.)                                                      *)

LimbBits == 14
LimbBase == 2 ^ LimbBits
SigBits == 53
SigLimbs == (SigBits + LimbBits - 1) \div LimbBits

\* Arithmetic of natural numbers of any size, on which the floats are built:
\* a number is a sequence of limbs, lowest first
RECURSIVE BigTrim(_)
BigTrim(x) ==
    IF Len(x) > 0 /\ x[Len(x)] = 0 THEN BigTrim(SubSeq(x, 1, Len(x) - 1))
    ELSE x

BigPad(x, n) == IF Len(x) < n THEN x \o Rep(0, n - Len(x)) ELSE x

RECURSIVE BigOfInt(_)
BigOfInt(n) ==
    IF n = 0 THEN <<>> ELSE <<n % LimbBase>> \o BigOfInt(n \div LimbBase)

RECURSIVE BigToInt(_)
BigToInt(x) ==
    IF Len(x) = 0 THEN 0 ELSE Head(x) + LimbBase * BigToInt(Tail(x))

\* column sums to limbs
RECURSIVE BigCarry(_, _)
BigCarry(cols, carry) ==
    IF Len(cols) = 0
    THEN IF carry = 0 THEN <<>>
         ELSE <<carry % LimbBase>> \o BigCarry(<<>>, carry \div LimbBase)
    ELSE LET v == Head(cols) + carry
         IN  <<v % LimbBase>> \o BigCarry(Tail(cols), v \div LimbBase)

BigAddSmall(x, c) ==
    IF Len(x) = 0 THEN BigOfInt(c)
    ELSE BigCarry([x EXCEPT ![1] = @ + c], 0)

BigMulSmall(x, c) == BigCarry([i \in 1..Len(x) |-> x[i] * c], 0)

RECURSIVE BigColumn(_, _, _, _)
BigColumn(x, y, k, i) ==
    IF i > Len(x) THEN 0
    ELSE (IF k + 1 - i >= 1 /\ k + 1 - i <= Len(y) THEN x[i] * y[k + 1 - i]
          ELSE 0) + BigColumn(x, y, k, i + 1)

BigMul(x, y) ==
    IF Len(x) = 0 \/ Len(y) = 0 THEN <<>>
    ELSE BigCarry([k \in 1..(Len(x) + Len(y) - 1) |-> BigColumn(x, y, k, 1)],
                  0)

\* quotient and remainder of x by a divisor below 2^16
RECURSIVE BigDivSmall(_, _)
BigDivSmall(x, d) ==
    IF Len(x) = 0 THEN [q |-> <<>>, r |-> 0]
    ELSE LET hi == BigDivSmall(Tail(x), d)
             v == hi.r * LimbBase + Head(x)
         IN  [q |-> <<v \div d>> \o hi.q, r |-> v % d]

BigShl(x, n) ==
    Rep(0, n \div LimbBits) \o BigMulSmall(x, 2 ^ (n % LimbBits))

\* x shifted right by n bits; sticky tells whether a 1 was shifted out
BigShr(x, n) ==
    LET w == Min(n \div LimbBits, Len(x))
        dv == BigDivSmall(SubSeq(x, w + 1, Len(x)), 2 ^ (n % LimbBits))
    IN  [q |-> dv.q,
         sticky |-> dv.r # 0 \/ \E i \in 1..w : x[i] # 0]

BigOdd(x) == Len(x) > 0 /\ x[1] % 2 = 1

SmallBitLen(v) == CHOOSE k \in 0..LimbBits : 2 ^ k > v /\ (k = 0 \/ 2 ^ (k - 1) <= v)

BigBitLen(x) ==
    LET t == BigTrim(x)
    IN  IF Len(t) = 0 THEN 0
        ELSE LimbBits * (Len(t) - 1) + SmallBitLen(t[Len(t)])

\* x shifted right by n >= 1 bits and rounded to nearest, ties to even;
\* more tells that the number is a little above x
BigRoundShr(x, n, more) ==
    LET sh == BigShr(x, n - 1)
        half == BigOdd(sh.q)
        q == BigDivSmall(sh.q, 2).q
    IN  IF half /\ (sh.sticky \/ more \/ BigOdd(q)) THEN BigAddSmall(q, 1)
        ELSE q

\* -1, 0 or 1 as x is below, equal to or above y
RECURSIVE BigCmpFrom(_, _, _)
BigCmpFrom(x, y, i) ==
    IF i = 0 THEN 0
    ELSE IF x[i] # y[i] THEN (IF x[i] < y[i] THEN 0 - 1 ELSE 1)
    ELSE BigCmpFrom(x, y, i - 1)

BigCmp(x, y) ==
    LET n == Max(Len(x), Len(y))
    IN  BigCmpFrom(BigPad(x, n), BigPad(y, n), n)

DblZero == [neg |-> FALSE, m |-> Rep(0, SigLimbs), e |-> 0]

DblIsZero(a) == a.m = Rep(0, SigLimbs)

\* the float nearest to x * 2^e (a little more when more holds), x > 0
DblRounded(neg, x, e, more) ==
    LET len == BigBitLen(x)
    IN  IF len <= SigBits
        THEN [neg |-> neg,
              m |-> BigPad(BigTrim(BigShl(x, SigBits - len)), SigLimbs),
              e |-> e - (SigBits - len)]
        ELSE LET r == BigRoundShr(x, len - SigBits, more)
             IN  IF BigBitLen(r) > SigBits
                 THEN [neg |-> neg,
                       m |-> BigPad(BigTrim(BigDivSmall(r, 2).q), SigLimbs),
                       e |-> e + (len - SigBits) + 1]
                 ELSE [neg |-> neg, m |-> BigPad(BigTrim(r), SigLimbs),
                       e |-> e + (len - SigBits)]

DblGuardBits == 5 * LimbBits

\* the float a decimal literal n/d stands for, 0 < d < 2^16
DblOf(n, d) ==
    IF n = 0 THEN DblZero
    ELSE LET a == IF n < 0 THEN 0 - n ELSE n
             dv == BigDivSmall(BigShl(BigOfInt(a), DblGuardBits), d)
         IN  DblRounded(n < 0, BigTrim(dv.q), 0 - DblGuardBits, dv.r # 0)

\* a * b
DblMul(a, b) ==
    IF DblIsZero(a) \/ DblIsZero(b) THEN DblZero
    ELSE DblRounded(a.neg # b.neg, BigTrim(BigMul(a.m, b.m)), a.e + b.e,
                    FALSE)

\* -1, 0 or 1 as a < b, a = b or a > b
DblCmp(a, b) ==
    LET sa == IF DblIsZero(a) THEN 0 ELSE IF a.neg THEN 0 - 1 ELSE 1
        sb == IF DblIsZero(b) THEN 0 ELSE IF b.neg THEN 0 - 1 ELSE 1
        mag == IF a.e # b.e THEN (IF a.e < b.e THEN 0 - 1 ELSE 1)
               ELSE BigCmp(a.m, b.m)
    IN  IF sa # sb THEN (IF sa < sb THEN 0 - 1 ELSE 1)
        ELSE sa * mag

DblLt(a, b) == DblCmp(a, b) < 0
DblLe(a, b) == DblCmp(a, b) <= 0

\* the integer nearest to a * scale, ties to even (a * scale below 2^31)
DblScaled(a, scale) ==
    IF DblIsZero(a) THEN 0
    ELSE LET x == BigMul(a.m, BigOfInt(scale))
             v == IF a.e >= 0 THEN BigToInt(BigTrim(BigShl(x, a.e)))
                  ELSE BigToInt(BigTrim(BigRoundShr(x, 0 - a.e, FALSE)))
         IN  IF a.neg THEN 0 - v ELSE v

----------------------------------------------------------------------------
(* Rows of the vector store and dicts of chunks *)

Str(cs) == <<cs>>
NoYear == <<>>

LongPrefix == Rep("a", KeyPrefixLen)

\* Rows of paper_embeddings with the similarity the search computes for
\* them.  r1 and r2 are two rows of the same file whose contents agree on
\* the first 100 characters.
RecordPool ==
    { [id |-> "r1", content |-> LongPrefix \o <<"x", ".">>,
       paper_type |-> "paper_1", section |-> "section_a",
       year |-> Str(<<"2", "0", "1", "8">>), source_file |-> "f1.pdf",
       similarity |-> 572],
      [id |-> "r2", content |-> LongPrefix \o <<"y">>,
       paper_type |-> "paper_1", section |-> "section_a",
       year |-> Str(<<"2", "0", "2", "5">>), source_file |-> "f1.pdf",
       similarity |-> 520],
      [id |-> "r3", content |-> <<"b", ".">>,
       paper_type |-> "paper_1", section |-> None,
       year |-> NoYear, source_file |-> "f2.pdf",
       similarity |-> 600],
      [id |-> "r4", content |-> <<"c">>,
       paper_type |-> "paper_2", section |-> "section_b",
       year |-> Str(<<"a", "b", "c">>), source_file |-> "f3.pdf",
       similarity |-> 360] }

Chunk(content, pt, sec, year, sim) ==
    [content |-> content, paper_type |-> pt, section |-> sec, year |-> year,
     source_file |-> "f.pdf", similarity |-> sim,
     recency_boost |-> Absent, section_match_boost |-> Absent,
     paper_match_boost |-> Absent, adjusted_similarity |-> <<>>]

\* dicts a caller passes to the scorer.  The floats 0.572 and 0.52 * 1.1
\* differ although the numbers are equal; the year of c is a literal with a
\* no-break space (U+00A0) before it and an underscore.
ChunkPool ==
    { Chunk(<<"a">>, "paper_1", "section_a", Str(<<"2", "0", "1", "8">>), 500),
      Chunk(<<"b">>, "paper_1", "section_a", Str(<<"2", "0", "1", "8">>), 500),
      Chunk(<<"c">>, "paper_1", "section_b",
            Str(<<" ", "2", "_", "0", "2", "5">>), 950),
      Chunk(<<"d">>, "paper_2", None, Str(<<"a", "b", "c">>), 572),
      Chunk(<<"e">>, "paper_1", None, NoYear, 1000),
      Chunk(<<"f">>, "paper_2", "section_a", Str(<<>>), -200),
      Chunk(<<"a">>, "paper_1", "section_a", Str(<<"2", "0", "2", "6">>), 500),
      Chunk(<<"h">>, "paper_2", "section_b", Str(<<"2", "0", "2", "3">>), 520) }

\* the similarities that rows and dicts carry, in thousandths
Similarities ==
    {r.similarity : r \in RecordPool} \cup {c.similarity : c \in ChunkPool}

----------------------------------------------------------------------------
(* Relevance scorer: _apply_relevance_scoring *)

\* chunk.get("year", "") is truthy
TruthyYear(y) == Len(y) = 1 /\ Len(y[1]) > 0

\* line 125: int(year_str) raises ValueError
IntValueError(chunk) ==
    TruthyYear(chunk.year) /\ ~IntParses(chunk.year[1])

\* lines 129-130: except ValueError: pass
ValueErrorHandled == TRUE

\* how a call of the scorer on chunks ends: it returns ("done") unless an
\* exception leaves the loop
ScoreOutcome(chunks) ==
    IF \E i \in 1..Len(chunks) :
           IntValueError(chunks[i]) /\ ~ValueErrorHandled
    THEN "raised"
    ELSE "done"

RecencyHitStrict(chunk, cy) ==
    /\ TruthyYear(chunk.year)
    /\ IntParses(chunk.year[1])
    /\ IntGe(IntOf(chunk.year[1]), cy - recency_boost_years + 1)

\* lines 122-130: the recency boost applies
RecencyHit(chunk, cy) ==
    /\ TruthyYear(chunk.year)
    /\ IntParses(chunk.year[1])
    /\ IntGe(IntOf(chunk.year[1]), cy - recency_boost_years)

\* lines 133-134: the section match boost applies
SectionHit(chunk, target_section) ==
    TruthyStr(target_section) /\ chunk.section = target_section

\* lines 139-140: the paper format boost applies
PaperHit(chunk, target_paper_format) ==
    chunk.paper_type = target_paper_format

\* the float of the decimal literal n/1000; the table holds the floats of
\* the usual range, computed once
FloatTable == [n \in (0 - SimScale)..SimScale |-> DblOf(n, SimScale)]

FloatOf(n) ==
    IF n \in (0 - SimScale)..SimScale THEN FloatTable[n]
    ELSE DblOf(n, SimScale)

\* line 118: chunk.get("similarity", 0) as a float
SimilarityOf(chunk) == FloatOf(chunk.similarity)

DblOne == DblOf(1, 1)
DblHundred == DblOf(100, 1)

\* lines 118-141: the similarity multiplied in turn by the factor of each
\* boost that applies, every product rounded to a float
Boosted(base, recency, sect, paper) ==
    LET a == IF recency THEN DblMul(base, DblOf(RecencyNum, RecencyDen))
             ELSE base
        b == IF sect THEN DblMul(a, DblOf(SectionNum, SectionDen)) ELSE a
    IN  IF paper THEN DblMul(b, DblOf(PaperNum, PaperDen)) ELSE b

\* the products above for every similarity of the pools, computed once
BoostedTable ==
    [n \in Similarities, recency \in BOOLEAN, sect \in BOOLEAN,
     paper \in BOOLEAN |-> Boosted(FloatOf(n), recency, sect, paper)]

BoostedSimilarityAdditive(chunk, target_section, target_paper_format, cy) ==
    DblMul(SimilarityOf(chunk),
           DblOf( RecencyDen * SectionDen * PaperDen
                  + (IF RecencyHit(chunk, cy)
                     THEN (RecencyNum - RecencyDen) * SectionDen * PaperDen
                     ELSE 0)
                  + (IF SectionHit(chunk, target_section)
                     THEN RecencyDen * (SectionNum - SectionDen) * PaperDen
                     ELSE 0)
                  + (IF PaperHit(chunk, target_paper_format)
                     THEN RecencyDen * SectionDen * (PaperNum - PaperDen)
                     ELSE 0),
                  RecencyDen * SectionDen * PaperDen ))

BoostedSimilarityCompounding(chunk, target_section, target_paper_format, cy) ==
    LET base == IF chunk.adjusted_similarity # <<>>
                THEN chunk.adjusted_similarity[1]
                ELSE SimilarityOf(chunk)
    IN  Boosted(base, RecencyHit(chunk, cy), SectionHit(chunk, target_section),
                PaperHit(chunk, target_paper_format))

\* lines 118-141: adjusted_similarity before the cap
BoostedSimilarity(chunk, target_section, target_paper_format, cy) ==
    LET recency == RecencyHit(chunk, cy)
        sect == SectionHit(chunk, target_section)
        paper == PaperHit(chunk, target_paper_format)
    IN  IF chunk.similarity \in Similarities
        THEN BoostedTable[chunk.similarity, recency, sect, paper]
        ELSE Boosted(SimilarityOf(chunk), recency, sect, paper)

\* line 144: min(adjusted_similarity, 1.0)
CapAdjusted(a) == IF DblLt(DblOne, a) THEN DblOne ELSE a

\* lines 117-145: one iteration of the loop; the dict is updated in place,
\* a flag is only ever set to True, never cleared
ScoreChunk(chunk, target_section, target_paper_format, cy) ==
    [chunk EXCEPT
       !.recency_boost =
           IF RecencyHit(chunk, cy) THEN "True" ELSE @,
       !.section_match_boost =
           IF SectionHit(chunk, target_section) THEN "True" ELSE @,
       !.paper_match_boost =
           IF PaperHit(chunk, target_paper_format) THEN "True" ELSE @,
       !.adjusted_similarity =
           <<CapAdjusted(BoostedSimilarity(chunk, target_section,
                                           target_paper_format, cy))>>]

\* the dicts of the input list after the loop, in input order
ScoreAll(chunks, target_section, target_paper_format, cy) ==
    [i \in 1..Len(chunks) |->
        ScoreChunk(chunks[i], target_section, target_paper_format, cy)]

SortKey(chunk) == chunk.adjusted_similarity[1]

\* where list.sort(key, reverse=True) places x among the elements s that
\* precede it in the input: behind every element whose key is >= its own
SortPositionUnstable(x, s) ==
    Cardinality({i \in 1..Len(s) : DblLt(SortKey(x), SortKey(s[i]))})

SortPositionByRaw(x, s) ==
    Cardinality({i \in 1..Len(s) : s[i].similarity >= x.similarity})

SortPosition(x, s) ==
    Cardinality({i \in 1..Len(s) : DblLe(SortKey(x), SortKey(s[i]))})

\* line 148: scored_chunks.sort(key=adjusted_similarity, reverse=True)
RECURSIVE SortDesc(_)
SortDesc(s) ==
    IF Len(s) = 0 THEN <<>>
    ELSE LET front == SortDesc(SubSeq(s, 1, Len(s) - 1))
             x == s[Len(s)]
             k == SortPosition(x, front)
         IN  SubSeq(front, 1, k) \o <<x>> \o SubSeq(front, k + 1, Len(front))

\* lines 100-150: the list _apply_relevance_scoring returns
apply_relevance_scoring(chunks, target_section, target_paper_format, cy) ==
    SortDesc(ScoreAll(chunks, target_section, target_paper_format, cy))

----------------------------------------------------------------------------
(* Records of the vector store *)

\* what one successful vector_search call can return: a list of up to
\* MaxResp rows, no row twice
Responses ==
    {s \in SeqsUpTo(RecordPool, MaxResp) :
        \A i, j \in 1..Len(s) : i # j => s[i].id # s[j].id}

\* lines 222, 224: (r.source_file, hash(r.content[:100])); the hash is
\* represented by the prefix it is computed from
DedupKey(r) == <<r.source_file, SlicePrefix(r.content, KeyPrefixLen)>>

KeysOf(rs) == {DedupKey(rs[i]) : i \in 1..Len(rs)}

\* lines 222-227 and 240-245: append the records of new whose key is not
\* yet seen; seen starts as the keys of results and grows with each append
RECURSIVE MergeInto(_, _, _)
MergeInto(rs, seen, new) ==
    IF Len(new) = 0 THEN rs
    ELSE IF DedupKey(Head(new)) \in seen
         THEN MergeInto(rs, seen, Tail(new))
         ELSE MergeInto(Append(rs, Head(new)),
                        seen \cup {DedupKey(Head(new))}, Tail(new))

Merge(rs, new) == MergeInto(rs, KeysOf(rs), new)

\* lines 252-259: the dict built from a record
ToChunk(record) ==
    [content |-> record.content,
     paper_type |-> record.paper_type,
     section |-> record.section,
     year |-> record.year,
     source_file |-> record.source_file,
     similarity |-> record.similarity,
     recency_boost |-> Absent,
     section_match_boost |-> Absent,
     paper_match_boost |-> Absent,
     adjusted_similarity |-> <<>>]

ContextChunks(rs) == [i \in 1..Len(rs) |-> ToChunk(rs[i])]

----------------------------------------------------------------------------
(* Query builder: build_rag_query.  The query is a sequence of tokens, see  *)
(* the encoding of formatted text.                                          *)

NoTopics == <<>>
TopicList(ts) == <<ts>>
TruthyList(t) == Len(t) = 1 /\ Len(t[1]) > 0

\* lines 52-81
FormatParts(pf, sec) ==
    IF pf = "paper_1" THEN
        <<"GCE O-Level English Paper 1 Writing examination",
          CASE sec = "section_a" -> "Section A Editing grammatical errors passage proofreading spelling punctuation verb tense"
            [] sec = "section_b" -> "Section B Situational Writing formal email letter report speech proposal audience purpose register"
            [] sec = "section_c" -> "Section C Continuous Writing composition essay narrative descriptive argumentative expository reflective"
            [] OTHER -> "Writing skills grammar situational continuous">>
    ELSE IF pf = "paper_2" THEN
        <<"GCE O-Level English Paper 2 Comprehension reading",
          CASE sec = "section_a" -> "Section A Visual Text comprehension advertisement poster infographic inference persuasive technique"
            [] sec = "section_b" -> "Section B Reading Comprehension passage questions inference vocabulary writer's craft language effect"
            [] sec = "section_c" -> "Section C Summary guided comprehension paraphrasing key points own words"
            [] OTHER -> "Comprehension inference summary vocabulary analysis">>
    ELSE IF pf = "oral" THEN
        <<"GCE O-Level English Oral Communication spoken",
          CASE sec = "reading_aloud" -> "Reading Aloud passage pronunciation fluency expression articulation"
            [] sec = "sbc" -> "Stimulus-Based Conversation discussion visual prompt opinion analysis"
            [] sec = "conversation" -> "General Conversation themes topics personal experience opinion"
            [] OTHER -> "Speaking oral reading conversation discussion">>
    ELSE <<>>

TopicPartsNotNone(t) ==
    IF t # NoTopics
    THEN << <<"Topics and themes: ">>
            \o JoinTokens(<<", ">>, [i \in 1..Len(t[1]) |-> <<t[1][i]>>]) >>
    ELSE <<>>

\* lines 84-86: the parts appended for the topics, none or one
TopicParts(t) ==
    IF TruthyList(t)
    THEN << <<"Topics and themes: ">>
            \o JoinTokens(<<", ">>, [i \in 1..Len(t[1]) |-> <<t[1][i]>>]) >>
    ELSE <<>>

\* lines 89-94: difficulty_descriptors.get(difficulty, "")
DifficultyDescriptor(d) ==
    CASE d = "foundational" -> "basic straightforward accessible"
      [] d = "standard" -> "moderate balanced typical"
      [] d = "advanced" -> "challenging complex sophisticated"
      [] OTHER -> ""

\* line 95: the part f"Difficulty: {difficulty} {desc}"
DifficultyParts(d) ==
    << <<"Difficulty: ", d, " ">>
       \o (IF DifficultyDescriptor(d) = "" THEN <<>>
           ELSE <<DifficultyDescriptor(d)>>) >>

\* lines 49-95: the local list parts, each part a string
QueryParts(pf, sec, t, d) ==
    [i \in 1..Len(FormatParts(pf, sec)) |-> <<FormatParts(pf, sec)[i]>>]
    \o TopicParts(t) \o DifficultyParts(d)

\* the query with the year of the call in it, read from the clock as line
\* 113 reads it for the scorer
build_rag_query_dated(pf, sec, t, d) ==
    JoinTokens(<<" ">>,
               QueryParts(pf, sec, t, d) \o <<<<ToString(current_year)>>>>)

\* lines 37-97
build_rag_query(pf, sec, t, d) ==
    JoinTokens(<<" ">>, QueryParts(pf, sec, t, d))

----------------------------------------------------------------------------
(* Retrieval orchestrator: retrieve_relevant_context *)

\* what a collaborator can raise: the two errors of the application, any
\* other subclass of Exception, and an exception that derives from
\* BaseException only (KeyboardInterrupt, SystemExit, GeneratorExit,
\* asyncio.CancelledError)
ExcKinds == {"EmbeddingError", "SupabaseError", "Exception",
             "KeyboardInterrupt"}

\* the kinds that are no subclass of Exception
BaseOnlyKinds == {"KeyboardInterrupt"}

ArgPaperFormats == {"paper_1"}
ArgSections == {None, "section_a"}
ArgLimits == {<<>>} \cup {<<n>> : n \in 0..MaxLimit}
ArgThresholds == {<<>>, <<0>>, <<505>>, <<600>>}
ArgTopics == {NoTopics}
ArgDifficulties == {"standard"}
Years == {2026}

\* line 200
CandidateLimit(lim) == lim * 2

\* the relaxed threshold with the factor 0.5 instead of 0.7
LowerThresholdHalf(thr) == DblMul(FloatOf(thr), DblOf(1, 2))

\* line 231: similarity_threshold * 0.7, a float product
LowerThresholdTable ==
    [thr \in 0..SimScale |-> DblMul(FloatOf(thr), DblOf(RelaxNum, RelaxDen))]

\* line 231, for the threshold thr thousandths; the table holds the products
\* of the usual range, computed once
LowerThreshold(thr) ==
    IF thr \in 0..SimScale THEN LowerThresholdTable[thr]
    ELSE DblMul(FloatOf(thr), DblOf(RelaxNum, RelaxDen))

\* the section filter of each strategy: lines 206, 217, 236
StrategySection(stage, sec) == IF stage = "A" THEN sec ELSE None

\* the threshold of each strategy: lines 208, 219, 238
StrategyThreshold(stage, thr) ==
    IF stage = "C" THEN LowerThreshold(thr) ELSE FloatOf(thr)

\* line 197: the call of generate_query_embedding
EmbedCall(q) ==
    [fn |-> "embed", stage |-> "", query |-> q, paper_type |-> "",
     section |-> "", limit |-> 0, threshold |-> DblZero, have |-> 0,
     status |-> "pending", response |-> <<>>]

\* strategy 3 embeds the query a second time instead of searching
SearchCallReembed(stage, pf, sec, lim, thr, have) ==
    [fn |-> IF stage = "C" THEN "embed" ELSE "vector_search",
     stage |-> stage, query |-> <<>>,
     paper_type |-> pf,
     section |-> IF stage = "A" THEN sec ELSE None,
     limit |-> lim * 2,
     threshold |-> FloatOf(thr),
     have |-> have,
     status |-> "pending", response |-> <<>>]

SearchCallUnfiltered(stage, pf, sec, lim, thr, have) ==
    [fn |-> "vector_search", stage |-> stage, query |-> <<>>,
     paper_type |-> IF stage = "A" THEN pf ELSE None,
     section |-> StrategySection(stage, sec),
     limit |-> CandidateLimit(lim),
     threshold |-> StrategyThreshold(stage, thr),
     have |-> have,
     status |-> "pending", response |-> <<>>]

\* lines 203-209, 214-220, 233-239: a call of search_similar_chunks; have
\* is the number of candidates collected when the call is issued
SearchCall(stage, pf, sec, lim, thr, have) ==
    [fn |-> "vector_search", stage |-> stage, query |-> <<>>,
     paper_type |-> pf,
     section |-> StrategySection(stage, sec),
     limit |-> CandidateLimit(lim),
     threshold |-> StrategyThreshold(stage, thr),
     have |-> have,
     status |-> "pending", response |-> <<>>]

NextStageEager(stage, rs, lim, sec) ==
    IF stage = "A" /\ TruthyStr(sec) THEN "B"
    ELSE IF stage \in {"A", "B"} THEN "C"
    ELSE "finish"

\* lines 212 and 230: what follows a successful search of the given stage
NextStage(stage, rs, lim, sec) ==
    IF stage = "A" /\ Len(rs) < lim /\ TruthyStr(sec) THEN "B"
    ELSE IF stage \in {"A", "B"} /\ Len(rs) < lim THEN "C"
    ELSE "finish"

\* lines 203, 222-227, 240-245: results after a search of the given stage
Collected(stage, rs, resp) ==
    IF stage = "A" THEN resp ELSE Merge(rs, resp)

\* lines 250-277: convert, score, take the top limit
FinalChunks(rs, sec, pf, lim, cy) ==
    SlicePrefix(apply_relevance_scoring(ContextChunks(rs), sec, pf, cy), lim)

\* the except clauses without the final catch-all of lines 285-287
HandlerNoCatchAll(kind) ==
    CASE kind = "EmbeddingError" -> "returned"
      [] kind = "SupabaseError" -> "returned"
      [] OTHER -> "raised"

\* lines 279-287: the except clauses; the last one is except Exception, so
\* every subclass of Exception is converted to return [] and everything else
\* leaves retrieve
Handler(kind) ==
    CASE kind = "EmbeddingError" -> "returned"
      [] kind = "SupabaseError" -> "returned"
      [] kind \notin BaseOnlyKinds -> "returned"
      [] OTHER -> "raised"

Last(s) == s[Len(s)]
SetLast(s, e) == [s EXCEPT ![Len(s)] = e]

\* no retrieve call is in progress
RetrieveIdle ==
    /\ pc = "idle"
    /\ paper_format = None
    /\ section = None
    /\ topics = NoTopics
    /\ difficulty = "standard"
    /\ limit_arg = <<>>
    /\ threshold_arg = <<>>
    /\ limit = 0
    /\ similarity_threshold = 0
    /\ calls = <<>>
    /\ results = <<>>
    /\ outcome = "none"
    /\ ret = <<>>

\* no direct scorer call is in progress
ScoreIdle ==
    /\ sc_pc = "idle"
    /\ sc_in = <<>>
    /\ sc_chunks = <<>>
    /\ sc_target_section = None
    /\ sc_target_paper_format = None
    /\ sc_out = <<>>
    /\ sc_calls = 0

\* no direct formatter call is in progress
FormatIdle ==
    /\ fm_pc = "idle"
    /\ fm_in = <<>>
    /\ fm_lines = <<>>
    /\ fm_out = <<>>

\* no prompt enhancer call is in progress
EnhanceIdle ==
    /\ en_pc = "idle"
    /\ en_base_prompt = <<>>
    /\ en_max_context_chunks = <<>>
    /\ en_out = <<>>

\* no direct query builder call was made, the process is fresh (no Supabase
\* client created yet) and no concurrent retrieve calls are running
AuxIdle ==
    /\ q_log = <<>>
    /\ supabase_client = None
    /\ backend = <<>>
    /\ cc = <<>>
    /\ ctx_log = <<>>

Init ==
    /\ RetrieveIdle
    /\ ScoreIdle
    /\ FormatIdle
    /\ EnhanceIdle
    /\ AuxIdle
    /\ current_year \in Years

\* lines 153-197: entry, defaults, query, the embedding call is issued
RetrieveEntry(pf, sec, t, d, lim, thr) ==
    /\ pc = "idle"
    /\ paper_format' = pf
    /\ section' = sec
    /\ topics' = t
    /\ difficulty' = d
    /\ limit_arg' = lim
    /\ threshold_arg' = thr
    /\ limit' = OrDefault(lim, max_context_chunks)
    /\ similarity_threshold' = OrDefault(thr, config_similarity_threshold)
    /\ calls' = <<EmbedCall(build_rag_query(pf, sec, t, d))>>
    /\ pc' = "embed"
    /\ UNCHANGED <<current_year, results, outcome, ret>>

\* retrieve_relevant_context is called directly
Retrieve(pf, sec, t, d, lim, thr) ==
    /\ RetrieveEntry(pf, sec, t, d, lim, thr)
    /\ UNCHANGED <<scoreVars, formatVars, enhanceVars, auxVars>>

\* supabase.py lines 121-134: the client the call works with, None when
\* SupabaseError is raised
GetSupabaseClient(client, configured) ==
    IF client # None THEN client
    ELSE IF ~configured THEN None
    ELSE "client"

\* line 197 returns; lines 200-209: strategy 1 is issued.  On entry
\* search_similar_chunks gets the Supabase client (supabase.py line 329): a
\* process that has none creates it and keeps it in _supabase_client, then
\* the call waits for the database; without credentials SupabaseError is
\* raised at once and lines 282-284 return [].
EmbedReturn(configured) ==
    /\ pc = "embed"
    /\ configured \/ supabase_client = None
    /\ supabase_client' = GetSupabaseClient(supabase_client, configured)
    /\ LET done == SetLast(calls, [Last(calls) EXCEPT !.status = "ok"])
           call == SearchCall("A", paper_format, section, limit,
                              similarity_threshold, 0)
       IN  IF GetSupabaseClient(supabase_client, configured) = None
           THEN /\ calls' = Append(done,
                                   [call EXCEPT !.status = "SupabaseError"])
                /\ backend' = Append(backend, "unconfigured")
                /\ outcome' = Handler("SupabaseError")
                /\ pc' = "done"
           ELSE /\ calls' = Append(done, call)
                /\ pc' = "A"
                /\ UNCHANGED <<backend, outcome>>
    /\ UNCHANGED <<paper_format, section, topics, difficulty, limit_arg,
                   threshold_arg, limit, similarity_threshold, current_year,
                   results, ret>>
    /\ UNCHANGED <<scoreVars, formatVars, enhanceVars>>
    /\ UNCHANGED <<q_log, cc, ctx_log>>

\* a collaborator call raises; lines 279-287
Raise(kind) ==
    /\ calls' = SetLast(calls, [Last(calls) EXCEPT !.status = kind])
    /\ outcome' = Handler(kind)
    /\ ret' = <<>>
    /\ pc' = "done"
    /\ UNCHANGED <<paper_format, section, topics, difficulty, limit_arg,
                   threshold_arg, limit, similarity_threshold, current_year,
                   results>>
    /\ UNCHANGED <<scoreVars, formatVars, enhanceVars>>

EmbedRaise(kind) ==
    /\ pc = "embed"
    /\ Raise(kind)
    /\ UNCHANGED auxVars

SearchRaise(kind) ==
    /\ pc \in {"A", "B", "C"}
    /\ Raise(kind)
    /\ UNCHANGED auxVars

\* a search returns resp; the code runs on to the next search or to the end
SearchReturnStep(resp) ==
    /\ pc \in {"A", "B", "C"}
    /\ LET rs == Collected(pc, results, resp)
           nxt == NextStage(pc, rs, limit, section)
           done == SetLast(calls, [Last(calls) EXCEPT !.status = "ok",
                                                      !.response = resp])
       IN  /\ results' = rs
           /\ IF nxt = "finish"
              THEN /\ calls' = done
                   /\ ret' = FinalChunks(rs, section, paper_format, limit,
                                         current_year)
                   /\ outcome' = "returned"
                   /\ pc' = "done"
              ELSE /\ calls' = Append(done,
                                 SearchCall(nxt, paper_format, section, limit,
                                            similarity_threshold, Len(rs)))
                   /\ pc' = nxt
                   /\ UNCHANGED <<ret, outcome>>
    /\ UNCHANGED <<paper_format, section, topics, difficulty, limit_arg,
                   threshold_arg, limit, similarity_threshold, current_year>>
    /\ UNCHANGED <<scoreVars, formatVars, enhanceVars>>

SearchReturn(resp) ==
    /\ SearchReturnStep(resp)
    /\ UNCHANGED auxVars

Next ==
    \/ \E pf \in ArgPaperFormats, sec \in ArgSections, t \in ArgTopics,
          d \in ArgDifficulties, lim \in ArgLimits, thr \in ArgThresholds :
          Retrieve(pf, sec, t, d, lim, thr)
    \/ \E configured \in BOOLEAN : EmbedReturn(configured)
    \/ \E kind \in ExcKinds : EmbedRaise(kind)
    \/ \E resp \in Responses : SearchReturn(resp)
    \/ \E kind \in ExcKinds : SearchRaise(kind)

Spec == Init /\ [][Next]_vars

----------------------------------------------------------------------------
(* Direct calls of the scorer, as the unit tests make them *)

ScoreTargetSections == {None, "section_a", "section_b"}
ScoreTargetFormats == {"paper_1", "paper_2"}

InitScore ==
    /\ RetrieveIdle
    /\ FormatIdle
    /\ EnhanceIdle
    /\ AuxIdle
    /\ current_year \in Years
    /\ sc_pc = "called"
    /\ sc_in \in SeqsUpTo(ChunkPool, MaxChunks)
    /\ sc_chunks = sc_in
    /\ sc_target_section \in ScoreTargetSections
    /\ sc_target_paper_format \in ScoreTargetFormats
    /\ sc_out = <<>>
    /\ sc_calls = 0

\* lines 100-150: the dicts of the list are updated in place, the returned
\* list holds the same dicts in sorted order
ScoreRun ==
    /\ sc_pc = "called"
    /\ sc_chunks' = ScoreAll(sc_chunks, sc_target_section,
                             sc_target_paper_format, current_year)
    /\ sc_out' = apply_relevance_scoring(sc_chunks, sc_target_section,
                                         sc_target_paper_format, current_year)
    /\ sc_pc' = ScoreOutcome(sc_chunks)
    /\ sc_calls' = 1
    /\ UNCHANGED <<sc_in, sc_target_section, sc_target_paper_format,
                   current_year>>
    /\ UNCHANGED <<retrieveVars, formatVars, enhanceVars, auxVars>>

NextScore == ScoreRun

SpecScore == InitScore /\ [][NextScore]_vars

\* lines 100-150 again: a caller passes the list an earlier call returned,
\* with targets of its choice; the dicts are the ones the earlier call
\* updated
Rescore(target_section, target_paper_format) ==
    /\ sc_pc = "done"
    /\ sc_calls < MaxScoreCalls
    /\ sc_in' = sc_out
    /\ sc_target_section' = target_section
    /\ sc_target_paper_format' = target_paper_format
    /\ sc_chunks' = ScoreAll(sc_out, target_section, target_paper_format,
                             current_year)
    /\ sc_out' = apply_relevance_scoring(sc_out, target_section,
                                         target_paper_format, current_year)
    /\ sc_pc' = ScoreOutcome(sc_out)
    /\ sc_calls' = sc_calls + 1
    /\ UNCHANGED current_year
    /\ UNCHANGED <<retrieveVars, formatVars, enhanceVars, auxVars>>

NextRescore ==
    \/ ScoreRun
    \/ \E ts \in ScoreTargetSections, tp \in ScoreTargetFormats :
          Rescore(ts, tp)

SpecRescore == InitScore /\ [][NextRescore]_vars

----------------------------------------------------------------------------
(* Context formatter: format_rag_context                                   *)
(* A Python string is a sequence of tokens: single characters or literal   *)
(* pieces of the templates; the empty string is <<>>.                      *)

max_chunk_chars == 1500
SentenceNum == 7      \* 0.7 = 7/10, line 353
SentenceDen == 10

Ellipsis == <<".", ".", ".">>
Unknown == <<"U", "n", "k", "n", "o", "w", "n">>

\* s.rfind(c): 0-based index of the last c in s, -1 when there is none
RFind(s, c) ==
    LET I == {i \in 1..Len(s) : s[i] = c}
    IN  IF I = {} THEN -1
        ELSE (CHOOSE i \in I : \A j \in I : j <= i) - 1

\* s.replace("_", " ").title() on the values of the two enums
TitleCase(s) ==
    CASE s = "paper_1" -> "Paper 1"
      [] s = "paper_2" -> "Paper 2"
      [] s = "oral" -> "Oral"
      [] s = "section_a" -> "Section A"
      [] s = "section_b" -> "Section B"
      [] s = "section_c" -> "Section C"
      [] s = "" -> ""

\* line 312: chunk.get("paper_type", "") is None, which has no replace()
PaperTypeRaises(chunk) == chunk.paper_type = None

\* line 311
SectionText(chunk) ==
    IF TruthyStr(chunk.section) THEN TitleCase(chunk.section) ELSE ""

\* line 312, for a paper_type that is a string
PaperTypeText(chunk) == TitleCase(chunk.paper_type)

\* lines 319-325: the metadata parts, each a string
MetaParts(chunk) ==
    (IF TruthyYear(chunk.year) /\ chunk.year[1] # Unknown
     THEN <<chunk.year[1]>> ELSE <<>>)
    \o (IF PaperTypeText(chunk) # "" THEN <<<<PaperTypeText(chunk)>>>>
        ELSE <<>>)
    \o (IF SectionText(chunk) # "" THEN <<<<SectionText(chunk)>>>>
        ELSE <<>>)

\* lines 318 and 327-328
HeaderLine(i, chunk) ==
    <<"### Reference ", ToString(i)>>
    \o (IF MetaParts(chunk) # <<>>
        THEN <<" (">> \o JoinTokens(<<", ">>, MetaParts(chunk)) \o <<")">>
        ELSE <<>>)

ShownSimilarityRaw(chunk) == SimilarityOf(chunk)

\* line 315: adjusted_similarity when the key is there, else similarity
ShownSimilarity(chunk) ==
    IF chunk.adjusted_similarity # <<>> THEN chunk.adjusted_similarity[1]
    ELSE SimilarityOf(chunk)

\* n / d rounded to the nearest integer, halves to the even neighbour
RoundHalfEven(n, d) ==
    LET q == n \div d
        r == n % d
    IN  IF 2 * r > d \/ (2 * r = d /\ q % 2 = 1) THEN q + 1 ELSE q

\* line 333, f"{similarity:.0%}": the float times 100, a float product,
\* printed without decimals (nearest integer of the exact value, halves to
\* the even neighbour, the sign kept on a negative that rounds to zero)
PercentText(a) ==
    LET p == DblScaled(DblMul(a, DblHundred), 1)
    IN  <<(IF a.neg /\ p = 0 THEN "-0" ELSE ToString(p)), "%">>

\* lines 336-342
BoostLabels(chunk) ==
    (IF chunk.recency_boost = "True" THEN <<<<"recent">>>> ELSE <<>>)
    \o (IF chunk.section_match_boost = "True"
        THEN <<<<"section match">>>> ELSE <<>>)
    \o (IF chunk.paper_match_boost = "True"
        THEN <<<<"paper match">>>> ELSE <<>>)

\* lines 333-344
RelevanceLine(chunk) ==
    <<"Relevance: ">> \o PercentText(ShownSimilarity(chunk))
    \o (IF BoostLabels(chunk) # <<>>
        THEN <<" (">> \o JoinTokens(<<", ">>, BoostLabels(chunk)) \o <<")">>
        ELSE <<>>)

\* lines 348-356: the content as it is emitted
TruncateContent(content) ==
    IF Len(content) > max_chunk_chars
    THEN LET truncated == SubSeq(content, 1, max_chunk_chars)
             last_period == RFind(truncated, ".")
         IN  IF last_period * SentenceDen > max_chunk_chars * SentenceNum
             THEN SubSeq(truncated, 1, last_period + 1) \o Ellipsis
             ELSE truncated \o Ellipsis
    ELSE content

\* lines 299-305
PreambleLines ==
    << <<"## Reference Examples from Past Papers">>,
       <<"Use the following excerpts as reference for tone, structure, and style.">>,
       <<"Do NOT copy content directly; use them as guidance only.">>,
       <<"These are ranked by relevance to your current task.">>,
       <<>> >>

\* lines 309-360: the lines one iteration appends
ChunkBlock(i, chunk) ==
    << HeaderLine(i, chunk),
       RelevanceLine(chunk),
       <<>>,
       TruncateContent(chunk["content"]),
       <<>>,
       <<"---">>,
       <<>> >>

BlockLen == 7
PreambleLen == Len(PreambleLines)

\* the local list lines after the first n iterations of the loop
RECURSIVE FormatLines(_, _)
FormatLines(chunks, n) ==
    IF n = 0 THEN PreambleLines
    ELSE FormatLines(chunks, n - 1) \o ChunkBlock(n, chunks[n])

\* the iteration in which line 312 raises AttributeError, 0 when none does
FirstRaising(chunks) ==
    LET I == {i \in 1..Len(chunks) : PaperTypeRaises(chunks[i])}
    IN  IF I = {} THEN 0 ELSE CHOOSE i \in I : \A j \in I : i <= j

format_rag_context_unguarded(chunks) ==
    JoinTokens(<<"\n">>, FormatLines(chunks, Len(chunks)))

\* lines 290-362: the string format_rag_context returns when it returns
format_rag_context(chunks) ==
    IF Len(chunks) = 0 THEN <<>>
    ELSE JoinTokens(<<"\n">>, FormatLines(chunks, Len(chunks)))

----------------------------------------------------------------------------
(* Direct calls of the formatter, as the unit tests make them *)

MaxFormatChunks == 2  \* longest list passed to the formatter directly

\* dicts a caller passes to the formatter: scored and unscored chunks,
\* contents below, at and above max_chunk_chars, with the last period of
\* the first max_chunk_chars characters at several places
FormatPool ==
    { [Chunk(<<"s", ".">>, "paper_1", "section_a",
             Str(<<"2", "0", "2", "3">>), 800)
         EXCEPT !.adjusted_similarity = <<DblOf(85, 100)>>,
                !.recency_boost = "True", !.section_match_boost = "True"],
      Chunk(Rep("e", max_chunk_chars), "paper_2", None, NoYear, 620),
      Chunk(Rep("p", 1400) \o <<".">> \o Rep("q", 199),
            "paper_1", None, NoYear, 500),
      [Chunk(Rep("h", 1550) \o <<".">> \o Rep("i", 49), "paper_1", None,
             Str(<<"2", "0", "2", "5">>), 700)
         EXCEPT !.adjusted_similarity = <<DblOf(8085, 10000)>>,
                !.recency_boost = "True", !.paper_match_boost = "True"],
      Chunk(Rep("k", 1049) \o <<".">> \o Rep("m", 550),
            "paper_2", "section_b", NoYear, 550),
      Chunk(Rep("u", 1051) \o <<".">> \o Rep("v", 548),
            "paper_2", "section_b", NoYear, 550),
      Chunk(<<"n">>, None, None, NoYear, 500) }

InitFormat ==
    /\ RetrieveIdle
    /\ ScoreIdle
    /\ EnhanceIdle
    /\ AuxIdle
    /\ current_year \in Years
    /\ fm_pc = "called"
    /\ fm_in \in SeqsUpTo(FormatPool, MaxFormatChunks)
    /\ fm_lines = <<>>
    /\ fm_out = <<>>

\* lines 290-362: the call returns a string, or line 312 raises
FormatRun ==
    /\ fm_pc = "called"
    /\ IF FirstRaising(fm_in) = 0
       THEN /\ fm_lines' = IF Len(fm_in) = 0 THEN <<>>
                           ELSE FormatLines(fm_in, Len(fm_in))
            /\ fm_out' = format_rag_context(fm_in)
            /\ fm_pc' = "done"
       ELSE /\ fm_lines' = FormatLines(fm_in, FirstRaising(fm_in) - 1)
            /\ fm_out' = <<>>
            /\ fm_pc' = "raised"
    /\ UNCHANGED <<fm_in, current_year>>
    /\ UNCHANGED <<retrieveVars, scoreVars, enhanceVars, auxVars>>

NextFormat == FormatRun

SpecFormat == InitFormat /\ [][NextFormat]_vars

----------------------------------------------------------------------------
(* Prompt enhancer: get_rag_enhanced_prompt *)

BasePrompts == {<<"Generate a Paper 1 exam.">>}
ArgMaxContextChunks == ArgLimits

\* line 410: f"{base_prompt}\n\n{context_section}"
EnhancedPrompt(base_prompt, context_section) ==
    base_prompt \o <<"\n", "\n">> \o context_section

\* lines 391-400: entry; retrieve is called with limit = max_chunks and no
\* similarity_threshold
EnhanceCall(base_prompt, pf, sec, t, d, mx) ==
    /\ en_pc = "idle"
    /\ RetrieveEntry(pf, sec, t, d, <<OrDefault(mx, max_context_chunks)>>,
                     <<>>)
    /\ en_base_prompt' = base_prompt
    /\ en_max_context_chunks' = mx
    /\ en_pc' = "retrieving"
    /\ UNCHANGED en_out
    /\ UNCHANGED <<scoreVars, formatVars, auxVars>>

\* lines 394-419: retrieve has ended.  What it raised leaves the enhancer
\* too; when it returned, the base prompt goes back as it is when there are
\* no chunks, else with the formatted context appended
EnhanceReturn ==
    /\ en_pc = "retrieving"
    /\ pc = "done"
    /\ IF outcome = "raised"
       THEN /\ en_out' = <<>>
            /\ en_pc' = "raised"
       ELSE IF Len(ret) = 0
       THEN /\ en_out' = en_base_prompt
            /\ en_pc' = "done"
       ELSE IF FirstRaising(ret) = 0
       THEN /\ en_out' = EnhancedPrompt(en_base_prompt,
                                        format_rag_context(ret))
            /\ en_pc' = "done"
       ELSE /\ en_out' = <<>>
            /\ en_pc' = "raised"
    /\ UNCHANGED <<en_base_prompt, en_max_context_chunks, current_year>>
    /\ UNCHANGED <<retrieveVars, scoreVars, formatVars, auxVars>>

NextEnhance ==
    \/ \E b \in BasePrompts, pf \in ArgPaperFormats, sec \in ArgSections,
          t \in ArgTopics, d \in ArgDifficulties,
          mx \in ArgMaxContextChunks :
          EnhanceCall(b, pf, sec, t, d, mx)
    \/ \E configured \in BOOLEAN : EmbedReturn(configured)
    \/ \E kind \in ExcKinds : EmbedRaise(kind)
    \/ \E resp \in Responses : SearchReturn(resp)
    \/ \E kind \in ExcKinds : SearchRaise(kind)
    \/ EnhanceReturn

SpecEnhance == Init /\ [][NextEnhance]_vars

----------------------------------------------------------------------------
(* Each function called on its own, one function per behaviour: the scorer *)
(* or the formatter on a list of the caller's choice, or the enhancer on   *)
(* top of retrieve                                                         *)

InitUnits == InitScore \/ InitFormat \/ Init

NextUnits ==
    \/ NextScore
    \/ NextFormat
    \/ (ScoreIdle /\ FormatIdle /\ NextEnhance)

SpecUnits == InitUnits /\ [][NextUnits]_vars

----------------------------------------------------------------------------
(* retrieve over the real vector search: search_similar_chunks and          *)
(* get_supabase_client of app/db/supabase.py                                *)

\* what the database does in one search that reached it: it answers with
\* rows, it has no function match_paper_embeddings, it cannot be reached
\* (the call of the client raises an Exception), or the call of the client
\* is cut short by an exception that is no Exception, such as
\* KeyboardInterrupt
BackendEvents ==
    {[kind |-> "rows", rows |-> r] : r \in Responses}
    \cup {[kind |-> k, rows |-> <<>>] :
             k \in {"function_missing", "unavailable"} \cup BaseOnlyKinds}

SearchOutcomeStrict(event) ==
    CASE event.kind = "rows" -> [raises |-> None, records |-> event.rows]
      [] event.kind \in BaseOnlyKinds ->
             [raises |-> event.kind, records |-> <<>>]
      [] OTHER -> [raises |-> "SupabaseError", records |-> <<>>]

\* supabase.py lines 329-373: how search_similar_chunks ends.  The clause
\* of line 367 is `except Exception`: an exception of BaseOnlyKinds passes
\* it as it is.
SearchOutcome(event) ==
    CASE event.kind = "rows" -> [raises |-> None, records |-> event.rows]
      [] event.kind = "function_missing" -> [raises |-> None, records |-> <<>>]
      [] event.kind \in BaseOnlyKinds ->
             [raises |-> event.kind, records |-> <<>>]
      [] OTHER -> [raises |-> "SupabaseError", records |-> <<>>]

\* the database answers a call of search_similar_chunks, with what follows
\* in retrieve; the next search, when there is one, finds the client in
\* _supabase_client.  An exception that search_similar_chunks raises meets
\* the except clauses of rag.py lines 279-287, which SupabaseError ends in
\* [] and an exception of BaseOnlyKinds leaves retrieve.
SearchReal(event) ==
    /\ pc \in {"A", "B", "C"}
    /\ backend' = Append(backend, event.kind)
    /\ IF SearchOutcome(event).raises = None
       THEN SearchReturnStep(SearchOutcome(event).records)
       ELSE Raise(SearchOutcome(event).raises)
    /\ UNCHANGED <<q_log, supabase_client, cc, ctx_log>>

NextBackend ==
    \/ \E pf \in ArgPaperFormats, sec \in ArgSections, t \in ArgTopics,
          d \in ArgDifficulties, lim \in ArgLimits, thr \in ArgThresholds :
          Retrieve(pf, sec, t, d, lim, thr)
    \/ \E configured \in BOOLEAN : EmbedReturn(configured)
    \/ \E kind \in ExcKinds : EmbedRaise(kind)
    \/ \E event \in BackendEvents : SearchReal(event)

SpecBackend == Init /\ [][NextBackend]_vars

----------------------------------------------------------------------------
(* Concurrent calls of retrieve_relevant_context, as the worker threads of  *)
(* the web application make them.  Each call has its own locals; the        *)
(* module-level _supabase_client of app/db/supabase.py is shared.  A call   *)
(* can be overtaken at every collaborator call and between the test and the *)
(* assignment of get_supabase_client.                                       *)

MaxCallers == 2       \* retrieve calls that run at the same time

Callers == 1..MaxCallers

\* the client object that create_client returns to each caller
ClientOf(c) == <<"client1", "client2", "client3", "client4">>[c]

\* the section argument of each call: the first call comes with or without
\* a section, the calls that run beside it with a section
ConcSections(c) == IF c = 1 THEN {None, "section_a"} ELSE {"section_a"}
ConcLimit == 1
ConcPaperFormat == "paper_1"

\* what a search can return to a concurrent call: nothing, one row, or two
\* rows that the section boost ranks differently
ConcResponses ==
    {r \in Responses :
        \/ Len(r) = 0
        \/ Len(r) = 1 /\ r[1].id = "r3"
        \/ Len(r) = 2 /\ r[1].id = "r1" /\ r[2].id = "r3"}

\* rag.py lines 153-200: the locals of a call that has not started; fn is
\* the function the thread runs: retrieve_relevant_context, or
\* get_supabase_client called by another function of supabase.py
IdleCall ==
    [fn |-> "retrieve_relevant_context",
     pc |-> "idle", stage |-> "", section |-> None, results |-> <<>>,
     embed |-> "pending", events |-> <<>>, client |-> None, wrote |-> FALSE,
     outcome |-> "none", ret |-> <<>>]

InitConcurrent ==
    /\ RetrieveIdle
    /\ ScoreIdle
    /\ FormatIdle
    /\ EnhanceIdle
    /\ current_year \in Years
    /\ q_log = <<>>
    /\ backend = <<>>
    /\ ctx_log = <<>>
    /\ supabase_client \in {None, "client0"}
    /\ cc = [c \in Callers |-> IdleCall]

ConcFrame ==
    UNCHANGED <<retrieveVars, scoreVars, formatVars, enhanceVars, current_year,
                q_log, backend, ctx_log>>

CallResultsShared(c) == cc[1].results

\* the list that the local name results of call c refers to
CallResults(c) == cc[c].results

\* rag.py lines 153-197: a call starts and asks for the embedding
ConcStart(c, sec) ==
    /\ cc[c].pc = "idle"
    /\ cc' = [cc EXCEPT ![c].pc = "embed", ![c].section = sec]
    /\ UNCHANGED supabase_client
    /\ ConcFrame

\* a thread calls get_supabase_client from another function of supabase.py,
\* each of which may store the client as search_similar_chunks does:
\* init_pgvector_extension (line 203), create_embeddings_table (line 209),
\* store_embeddings (line 281), get_embedding_stats (line 378) and
\* clear_embeddings (line 435)
ConcStartOther(c) ==
    /\ cc[c].pc = "idle"
    /\ cc' = [cc EXCEPT ![c].pc = "get", ![c].fn = "get_supabase_client"]
    /\ UNCHANGED supabase_client
    /\ ConcFrame

\* rag.py lines 197-203: the embedding arrives, search_similar_chunks is
\* entered for strategy A
ConcEmbedReturn(c) ==
    /\ cc[c].pc = "embed"
    /\ cc' = [cc EXCEPT ![c].pc = "get", ![c].stage = "A", ![c].embed = "ok"]
    /\ UNCHANGED supabase_client
    /\ ConcFrame

\* rag.py lines 279-287: generate_query_embedding raises
ConcEmbedRaise(c, kind) ==
    /\ cc[c].pc = "embed"
    /\ cc' = [cc EXCEPT ![c].pc = "done", ![c].embed = kind,
                        ![c].outcome = Handler(kind),
                        ![c].ret = <<>>]
    /\ UNCHANGED supabase_client
    /\ ConcFrame

\* where a thread goes on once get_supabase_client has returned the client:
\* retrieve to the query of the database; a call from another function ends
\* here
AfterClient(c) ==
    IF cc[c].fn = "retrieve_relevant_context" THEN "rpc" ELSE "done"

\* supabase.py lines 123-126: the test of the module-level client
ConcGetClient(c) ==
    /\ cc[c].pc = "get"
    /\ cc' = IF supabase_client # None
             THEN [cc EXCEPT ![c].pc = AfterClient(c),
                             ![c].client = supabase_client,
                             ![c].outcome =
                                 IF AfterClient(c) = "done" THEN "returned"
                                 ELSE @]
             ELSE [cc EXCEPT ![c].pc = "create"]
    /\ UNCHANGED supabase_client
    /\ ConcFrame

\* supabase.py lines 128-131: the module-level client is None and the
\* credentials are not configured; SupabaseError is raised and nothing is
\* stored.  The call of line 329 stands outside the try of
\* search_similar_chunks, so that retrieve meets the error at rag.py lines
\* 282-284 and returns []; the other functions pass it on to their caller.
ConcNoCredentials(c) ==
    /\ cc[c].pc = "create"
    /\ cc' = IF cc[c].fn = "retrieve_relevant_context"
             THEN [cc EXCEPT ![c].pc = "done",
                      ![c].events = Append(@, [status |-> "SupabaseError",
                                               response |-> <<>>]),
                      ![c].outcome = Handler("SupabaseError"),
                      ![c].ret = <<>>]
             ELSE [cc EXCEPT ![c].pc = "done", ![c].outcome = "raised"]
    /\ UNCHANGED supabase_client
    /\ ConcFrame

\* supabase.py lines 133-134: the credentials are configured; create_client
\* and the assignment of the module-level client
ConcCreateClient(c) ==
    /\ cc[c].pc = "create"
    /\ supabase_client' = ClientOf(c)
    /\ cc' = [cc EXCEPT ![c].pc = AfterClient(c), ![c].client = ClientOf(c),
                        ![c].wrote = TRUE,
                        ![c].outcome =
                            IF AfterClient(c) = "done" THEN "returned" ELSE @]
    /\ ConcFrame

\* supabase.py lines 331-365 and rag.py lines 203-277: the search returns
\* and the call runs on to its next search or to its end
ConcSearchReturn(c, resp) ==
    /\ cc[c].pc = "rpc"
    /\ LET rs == Collected(cc[c].stage, CallResults(c), resp)
           nxt == NextStage(cc[c].stage, rs, ConcLimit, cc[c].section)
           evs == Append(cc[c].events, [status |-> "ok", response |-> resp])
       IN  cc' = IF nxt = "finish"
                 THEN [cc EXCEPT ![c].pc = "done", ![c].results = rs,
                          ![c].events = evs, ![c].outcome = "returned",
                          ![c].ret = FinalChunks(rs, cc[c].section,
                                                 ConcPaperFormat, ConcLimit,
                                                 current_year)]
                 ELSE [cc EXCEPT ![c].pc = "get", ![c].stage = nxt,
                          ![c].results = rs, ![c].events = evs]
    /\ UNCHANGED supabase_client
    /\ ConcFrame

\* what search_similar_chunks raises: SupabaseError (supabase.py line 373)
\* or the exception of the client that passes line 367
ConcSearchKinds == {"SupabaseError"} \cup BaseOnlyKinds

\* supabase.py lines 367-373 and rag.py lines 282-287
ConcSearchRaise(c, kind) ==
    /\ cc[c].pc = "rpc"
    /\ cc' = [cc EXCEPT ![c].pc = "done",
                 ![c].events = Append(@, [status |-> kind,
                                          response |-> <<>>]),
                 ![c].outcome = Handler(kind),
                 ![c].ret = <<>>]
    /\ UNCHANGED supabase_client
    /\ ConcFrame

NextConcurrent ==
    \E c \in Callers :
        \/ \E sec \in ConcSections(c) : ConcStart(c, sec)
        \/ ConcStartOther(c)
        \/ ConcEmbedReturn(c)
        \/ \E kind \in ExcKinds : ConcEmbedRaise(c, kind)
        \/ ConcGetClient(c)
        \/ ConcNoCredentials(c)
        \/ ConcCreateClient(c)
        \/ \E resp \in ConcResponses : ConcSearchReturn(c, resp)
        \/ \E kind \in ConcSearchKinds : ConcSearchRaise(c, kind)

SpecConcurrent == InitConcurrent /\ [][NextConcurrent]_vars

----------------------------------------------------------------------------
(* Scoring and formatting a list of chunks more than once *)

MaxPasses == 2        \* passes of scoring and formatting over one list
MaxPassChunks == 2    \* longest list the passes are made over
MaxYear == 2027       \* the clock runs on to this year at most

\* rag.py line 113 reads datetime.now().year in every call of the scorer:
\* the year changes between two calls
Tick ==
    /\ current_year < MaxYear
    /\ current_year' = current_year + 1
    /\ UNCHANGED <<retrieveVars, scoreVars, formatVars, enhanceVars, auxVars>>

\* lines 100-150 and 290-362: format_rag_context(_apply_relevance_scoring(
\* input, target_section, target_paper_format)); the scorer updates the dicts
\* of the caller's list in place, the returned list holds the same dicts
Pass(input, list) ==
    /\ Len(ctx_log) < MaxPasses
    /\ sc_pc' = ScoreOutcome(input)
    /\ sc_chunks' = ScoreAll(sc_chunks, sc_target_section,
                             sc_target_paper_format, current_year)
    /\ sc_out' = apply_relevance_scoring(input, sc_target_section,
                                         sc_target_paper_format, current_year)
    /\ sc_calls' = sc_calls + 1
    /\ fm_in' = sc_out'
    /\ fm_lines' = IF Len(sc_out') = 0 THEN <<>>
                   ELSE FormatLines(sc_out', Len(sc_out'))
    /\ fm_out' = IF Len(sc_out') = 0 THEN <<>>
                 ELSE JoinTokens(<<"\n">>, fm_lines')
    /\ fm_pc' = "done"
    /\ ctx_log' = Append(ctx_log, [list |-> list, at |-> current_year,
                                   chunks |-> sc_chunks',
                                   scored |-> sc_out', text |-> fm_out'])
    /\ UNCHANGED <<sc_in, sc_target_section, sc_target_paper_format,
                   current_year>>
    /\ UNCHANGED <<retrieveVars, enhanceVars, q_log, supabase_client,
                   backend, cc>>

\* a pass over the list the caller holds
PassCallerList == Pass(sc_chunks, "caller")

\* a further pass over the list the pass before returned
PassReturnedList == Len(ctx_log) > 0 /\ Pass(sc_out, "returned")

\* the year changes between two passes
PassTick == Len(ctx_log) \in 1..(MaxPasses - 1) /\ Tick

NextPasses == PassCallerList \/ PassReturnedList \/ PassTick

\* the caller holds a list of fresh dicts and targets of its choice
InitPasses ==
    /\ RetrieveIdle
    /\ FormatIdle
    /\ EnhanceIdle
    /\ AuxIdle
    /\ current_year \in Years
    /\ sc_pc = "called"
    /\ sc_in \in SeqsUpTo(ChunkPool, MaxPassChunks)
    /\ sc_chunks = sc_in
    /\ sc_target_section \in ScoreTargetSections
    /\ sc_target_paper_format \in ScoreTargetFormats
    /\ sc_out = <<>>
    /\ sc_calls = 0

SpecPasses == InitPasses /\ [][NextPasses]_vars

----------------------------------------------------------------------------
(* Direct calls of the query builder *)

MaxQueryCalls == 3    \* query builder calls made one after the other

QueryPaperFormats == {"paper_1", "paper_2", "oral", "paper_3"}
QuerySections ==
    {None, "section_a", "section_b", "section_c", "reading_aloud", "sbc",
     "conversation", "section_z"}
QueryTopics ==
    {NoTopics, TopicList(<<>>), TopicList(<<"travel">>),
     TopicList(<<"environment", "technology">>)}
QueryDifficulties == {"foundational", "standard", "advanced", "expert"}

\* lines 37-97: one call; the call reads its arguments only and writes
\* nothing but its own locals
BuildQuery(pf, sec, t, d) ==
    /\ q_log' = Append(q_log,
                       [paper_format |-> pf, section |-> sec, topics |-> t,
                        difficulty |-> d, at |-> current_year,
                        result |-> build_rag_query(pf, sec, t, d)])
    /\ UNCHANGED <<supabase_client, backend, cc, ctx_log, current_year>>
    /\ UNCHANGED <<retrieveVars, scoreVars, formatVars, enhanceVars>>

\* one call on arguments of every kind
NextQuery ==
    \E pf \in QueryPaperFormats, sec \in QuerySections, t \in QueryTopics,
       d \in QueryDifficulties :
       Len(q_log) = 0 /\ BuildQuery(pf, sec, t, d)

SpecQuery == Init /\ [][NextQuery]_vars

\* several calls one after the other, at different times
NextQueryLog ==
    \/ \E pf \in {"paper_1", "paper_3"}, sec \in {None, "section_a"},
          t \in {NoTopics, TopicList(<<"travel">>)}, d \in {"standard"} :
          Len(q_log) < MaxQueryCalls /\ BuildQuery(pf, sec, t, d)
    \/ Tick

SpecQueryLog == Init /\ [][NextQueryLog]_vars

----------------------------------------------------------------------------
(* Vocabulary of the properties *)

Finished == pc = "done"
SomeCallFailed == \E i \in 1..Len(calls) : calls[i].status \in ExcKinds
NoCallFailed == \A i \in 1..Len(calls) : calls[i].status = "ok"
SearchIdx == {i \in 1..Len(calls) : calls[i].fn = "vector_search"}
StageIssued(stage) == \E i \in SearchIdx : calls[i].stage = stage
AdjustedOf(chunk) == chunk.adjusted_similarity[1]

\* the limit the caller asked for: the value passed, or the configured
\* default when none was passed
CallerLimit ==
    IF limit_arg = <<>> THEN max_context_chunks ELSE limit_arg[1]

\* the threshold the caller asked for
CallerThreshold ==
    IF threshold_arg = <<>> THEN config_similarity_threshold
    ELSE threshold_arg[1]

----------------------------------------------------------------------------
(* C1 as stated: retrieve never lets an exception escape: when the         *)
(* embedding call or any vector_search call raises EmbeddingError,         *)
(* SupabaseError or any other exception, retrieve returns the empty list,  *)
(* also when earlier strategies had already collected candidates.          *)
C1_NeverPropagates ==
    /\ outcome # "raised"
    /\ (Finished /\ SomeCallFailed) => (outcome = "returned" /\ ret = <<>>)

\* the exception that ended the call derives from BaseException only
FailedOutsideException ==
    Len(calls) > 0 /\ calls[Len(calls)].status \in BaseOnlyKinds

(* C1 amended: when the embedding call or any vector_search call raises    *)
(* EmbeddingError, SupabaseError or any other subclass of Exception,       *)
(* retrieve returns the empty list, also when earlier strategies had       *)
(* already collected candidates; an exception leaves retrieve exactly when *)
(* it derives from BaseException only, as KeyboardInterrupt does.          *)
C1_ExceptionsBecomeEmptyList ==
    /\ outcome = "raised" <=> (Finished /\ FailedOutsideException)
    /\ (Finished /\ SomeCallFailed /\ ~FailedOutsideException)
          => (outcome = "returned" /\ ret = <<>>)

\* strategy 3 fails with an unexpected exception after candidates were
\* collected, and retrieve has returned
C1_Witness ==
    /\ Finished
    /\ Len(calls) = 4
    /\ calls[4].stage = "C"
    /\ calls[4].status = "Exception"
    /\ Len(results) > 0
    /\ outcome = "returned"
    /\ ret = <<>>

(* C2 as stated: the returned list has at most limit elements, limit being *)
(* the value the caller passed, or max_context_chunks when none is passed. *)
C2_AtMostCallerLimit ==
    (Finished /\ outcome = "returned") => Len(ret) <= CallerLimit

(* C3 as stated: the returned list is sorted by raw similarity, descending *)
C3_SortedByRawSimilarity ==
    Finished =>
        \A i, j \in 1..Len(ret) :
            i < j => ret[i].similarity >= ret[j].similarity

(* C3 amended: the returned list is sorted by adjusted_similarity,         *)
(* descending.                                                             *)
C3_SortedByAdjusted ==
    Finished =>
        \A i, j \in 1..Len(ret) :
            i < j => DblLe(AdjustedOf(ret[j]), AdjustedOf(ret[i]))

\* a returned list whose first chunk has the lower raw similarity and the
\* higher adjusted similarity
C3_Witness ==
    /\ Finished
    /\ Len(ret) >= 2
    /\ ret[1].similarity < ret[2].similarity
    /\ DblLt(AdjustedOf(ret[2]), AdjustedOf(ret[1]))

----------------------------------------------------------------------------
(* Vocabulary of the fallback ladder *)

StageRank(stage) == CASE stage = "A" -> 1 [] stage = "B" -> 2 [] OTHER -> 3

\* the records the search of a stage returned, <<>> when it was not run
ResponseOf(stage) ==
    IF StageIssued(stage)
    THEN calls[CHOOSE i \in SearchIdx : calls[i].stage = stage].response
    ELSE <<>>

NoDuplicateKeys(rs) ==
    \A i, j \in 1..Len(rs) : i < j => DedupKey(rs[i]) # DedupKey(rs[j])

(* C4 as stated: the strategies run in the order A, B, C; B is issued iff  *)
(* a section was specified and A returned fewer than limit records; C is   *)
(* issued iff the merged, deduplicated candidates after A (and B) number   *)
(* fewer than limit; when A returns at least limit records exactly one     *)
(* vector_search call is made.                                             *)
C4_LadderAsStated ==
    (Finished /\ NoCallFailed) =>
        /\ \A i, j \in SearchIdx :
              i < j => StageRank(calls[i].stage) < StageRank(calls[j].stage)
        /\ StageIssued("A")
        /\ StageIssued("B") <=>
              (TruthyStr(section) /\ Len(ResponseOf("A")) < limit)
        /\ StageIssued("C") <=>
              Cardinality(KeysOf(ResponseOf("A") \o ResponseOf("B"))) < limit
        /\ Len(ResponseOf("A")) >= limit => Cardinality(SearchIdx) = 1

(* C5 as stated: for every limit and similarity_threshold the caller       *)
(* supplies, strategy A searches with paper_type = paper_format, the       *)
(* caller's section, the caller's threshold and candidate limit 2 x limit; *)
(* B the same with section null; C with section null and 0.7 x threshold.  *)
C5_ParametersAsStated ==
    \A i \in SearchIdx :
        /\ calls[i].paper_type = paper_format
        /\ calls[i].limit = 2 * CallerLimit
        /\ calls[i].stage = "A" =>
              (calls[i].section = section
               /\ calls[i].threshold = FloatOf(CallerThreshold))
        /\ calls[i].stage = "B" =>
              (calls[i].section = None
               /\ calls[i].threshold = FloatOf(CallerThreshold))
        /\ calls[i].stage = "C" =>
              (calls[i].section = None
               /\ DblScaled(calls[i].threshold, SimScale * RelaxDen)
                     = RelaxNum * CallerThreshold)

(* C6 as stated: after strategy A and after each merge no two candidates   *)
(* share the key (source_file, first 100 characters of content), and no    *)
(* two returned chunks share it, even when one vector_search call returns  *)
(* two records with the same key.                                          *)
C6_NoDuplicateKeys ==
    /\ NoDuplicateKeys(results)
    /\ NoDuplicateKeys(ret)

(* C7: the collaborator calls of one retrieve are one embed call followed  *)
(* by at most three vector_search calls, each issued only after the        *)
(* previous call has completed successfully; no search follows a failed    *)
(* embed and no call follows a failed call.                                *)
C7_CallSequence ==
    /\ pc # "idle" => (Len(calls) >= 1 /\ calls[1].fn = "embed")
    /\ \A i \in 2..Len(calls) : calls[i].fn = "vector_search"
    /\ Cardinality(SearchIdx) <= 3
    /\ \A i \in 1..(Len(calls) - 1) : calls[i].status = "ok"
    /\ Finished => \A i \in 1..Len(calls) : calls[i].status # "pending"

\* the third search fails and retrieve ends with exactly these four calls
C7_Witness ==
    /\ Finished
    /\ Len(calls) = 4
    /\ calls[1].fn = "embed"
    /\ calls[4].stage = "C"
    /\ calls[4].status = "SupabaseError"

\* every search returned only records at or above the threshold it was given
SearchHonoursThreshold ==
    \A i \in SearchIdx :
        \A k \in 1..Len(calls[i].response) :
            DblLe(calls[i].threshold,
                  FloatOf(calls[i].response[k].similarity))

\* number of candidates that strategies A and B collected
CollectedBeforeC ==
    IF StageIssued("C")
    THEN calls[CHOOSE i \in SearchIdx : calls[i].stage = "C"].have
    ELSE Len(results)

\* the returned chunk was built from a record that strategy C appended
FromStrategyC(chunk) ==
    \E k \in (CollectedBeforeC + 1)..Len(results) :
        /\ results[k].content = chunk.content
        /\ results[k].source_file = chunk.source_file
        /\ results[k].similarity = chunk.similarity

(* C8: if every search returns only records at or above its threshold,     *)
(* every returned chunk has raw similarity >= similarity_threshold when it *)
(* came from strategy A or B and >= 0.7 x similarity_threshold when it     *)
(* came from strategy C; without strategy C all are >= the threshold.      *)
C8_ThresholdInvariant ==
    (Finished /\ outcome = "returned" /\ SearchHonoursThreshold) =>
        \A n \in 1..Len(ret) :
            /\ ~FromStrategyC(ret[n]) =>
                  ret[n].similarity >= similarity_threshold
            /\ FromStrategyC(ret[n]) =>
                  10 * ret[n].similarity >= 7 * similarity_threshold
            /\ ~StageIssued("C") =>
                  ret[n].similarity >= similarity_threshold

\* a chunk from strategy C below the caller's threshold is returned next to
\* a chunk of strategy A or B
C8_Witness ==
    /\ Finished
    /\ SearchHonoursThreshold
    /\ \E n \in 1..Len(ret) :
          FromStrategyC(ret[n]) /\ ret[n].similarity < similarity_threshold
    /\ \E n \in 1..Len(ret) : ~FromStrategyC(ret[n])

----------------------------------------------------------------------------
(* Properties of the scorer, checked on direct calls (SpecScore) *)

Bijections(n) ==
    {p \in [1..n -> 1..n] : \A i, j \in 1..n : i # j => p[i] # p[j]}

(* C9: the list score returns is sorted by adjusted_similarity descending, *)
(* and chunks with equal adjusted_similarity keep the relative order they  *)
(* had in the input list.                                                  *)
C9_SortedStable ==
    sc_pc = "done" =>
        /\ Len(sc_out) = Len(sc_chunks)
        /\ \A i, j \in 1..Len(sc_out) :
              i < j => DblLe(AdjustedOf(sc_out[j]), AdjustedOf(sc_out[i]))
        /\ \E p \in Bijections(Len(sc_out)) :
              /\ \A i \in 1..Len(sc_out) : sc_out[i] = sc_chunks[p[i]]
              /\ \A i, j \in 1..Len(sc_out) :
                    (i < j /\ AdjustedOf(sc_out[i]) = AdjustedOf(sc_out[j]))
                        => p[i] < p[j]

\* two different chunks tie behind a chunk that the sort moved in front of
\* them, and the tied chunks are in input order
C9_Witness ==
    /\ sc_pc = "done"
    /\ Len(sc_out) = 3
    /\ DblLt(AdjustedOf(sc_out[2]), AdjustedOf(sc_out[1]))
    /\ AdjustedOf(sc_out[2]) = AdjustedOf(sc_out[3])
    /\ sc_out[2] # sc_out[3]
    /\ sc_out[1] = sc_chunks[3]
    /\ sc_out[2] = sc_chunks[1]
    /\ sc_out[3] = sc_chunks[2]

(* C10 as stated: every chunk score produces has                           *)
(* 0 <= adjusted_similarity <= 1, whatever its raw similarity and          *)
(* whichever boosts apply.                                                 *)
C10_Clamped ==
    sc_pc = "done" =>
        \A i \in 1..Len(sc_out) :
            /\ DblLe(DblZero, AdjustedOf(sc_out[i]))
            /\ DblLe(AdjustedOf(sc_out[i]), DblOne)

----------------------------------------------------------------------------
(* Claims about the boosts of the scorer *)

\* the year of the chunk parses as an integer that is at least cy - 3
YearIsRecent(chunk, cy) ==
    /\ Len(chunk.year) = 1
    /\ IntParses(chunk.year[1])
    /\ IntGe(IntOf(chunk.year[1]), cy - 3)

FlagSet(f) == f = "True"

\* C11: a direct scorer call on fresh chunks never raises; a chunk gets the
\* recency factor 1.1 and the flag recency_boost exactly when its year
\* parses as an integer >= current_year - 3; and of two chunks of similarity
\* 0.5 that differ only in year, one of 2018 and one of the current year,
\* the current-year chunk has the strictly greater adjusted_similarity and
\* alone carries recency_boost.
C11_RecencyBoost ==
    sc_pc # "called" =>
      /\ sc_pc = "done"
      /\ \A i \in 1..Len(sc_in) :
            LET c == sc_chunks[i]
                recent == YearIsRecent(sc_in[i], current_year)
                others ==
                    (IF FlagSet(c.section_match_boost) THEN 23 ELSE 20)
                  * (IF FlagSet(c.paper_match_boost) THEN 21 ELSE 20)
            IN  /\ FlagSet(c.recency_boost) <=> recent
                /\ DblScaled(AdjustedOf(c), AdjScale) =
                     Min(AdjScale, sc_in[i].similarity
                                     * (IF recent THEN 11 ELSE 10) * others)
      /\ \A i, j \in 1..Len(sc_in) :
            ( /\ sc_in[i].similarity = 500
              /\ sc_in[j].similarity = 500
              /\ sc_in[i].paper_type = sc_in[j].paper_type
              /\ sc_in[i].section = sc_in[j].section
              /\ YearIsRecent(sc_in[i], current_year)
              /\ IntGe(IntOf(sc_in[i].year[1]), current_year)
              /\ ~IntGe(IntOf(sc_in[i].year[1]), current_year + 1)
              /\ sc_in[j].year = Str(<<"2", "0", "1", "8">>) )
            => /\ DblLt(AdjustedOf(sc_chunks[j]), AdjustedOf(sc_chunks[i]))
               /\ FlagSet(sc_chunks[i].recency_boost)
               /\ ~FlagSet(sc_chunks[j].recency_boost)

\* a call that scored a current-year chunk, a 2018 chunk of the same
\* similarity 0.5 and a chunk whose year is not a number
C11_Witness ==
    /\ sc_pc = "done"
    /\ \E i, j, k \in 1..Len(sc_in) :
          /\ sc_in[i].similarity = 500
          /\ sc_in[j].similarity = 500
          /\ sc_in[i].year = Str(<<"2", "0", "2", "6">>)
          /\ current_year = 2026
          /\ sc_in[j].year = Str(<<"2", "0", "1", "8">>)
          /\ sc_in[k].year = Str(<<"a", "b", "c">>)
          /\ FlagSet(sc_chunks[i].recency_boost)
          /\ DblLt(AdjustedOf(sc_chunks[j]), AdjustedOf(sc_chunks[i]))
          /\ ~FlagSet(sc_chunks[k].recency_boost)

\* C12: after a scorer call every chunk has adjusted_similarity =
\* min(1.0, similarity * r * s * p), to the nearest 1/AdjScale (the program
\* computes the product in floats), with r = 1.1 iff the year is recent,
\* s = 1.15 iff target_section is non-null and equals the chunk's section,
\* p = 1.05 iff the chunk's paper_type equals target_paper_format.
C12_Multiplicative ==
    sc_pc = "done" =>
      \A i \in 1..Len(sc_in) :
        LET r == IF YearIsRecent(sc_in[i], current_year) THEN 11 ELSE 10
            s == IF sc_target_section # None
                      /\ sc_in[i].section = sc_target_section
                 THEN 23 ELSE 20
            p == IF sc_in[i].paper_type = sc_target_paper_format
                 THEN 21 ELSE 20
        IN  DblScaled(AdjustedOf(sc_chunks[i]), AdjScale)
              = Min(1 * AdjScale, sc_in[i].similarity * r * s * p)

\* a chunk that received all three factors and stayed below the cap
C12_Witness ==
    /\ sc_pc = "done"
    /\ \E i \in 1..Len(sc_in) :
          /\ YearIsRecent(sc_in[i], current_year)
          /\ sc_target_section # None
          /\ sc_in[i].section = sc_target_section
          /\ sc_in[i].paper_type = sc_target_paper_format
          /\ sc_in[i].similarity > 0
          /\ DblScaled(AdjustedOf(sc_chunks[i]), AdjScale)
               = sc_in[i].similarity * 11 * 23 * 21
          /\ DblLt(AdjustedOf(sc_chunks[i]), DblOne)

\* C13: after every scorer call, also one on chunks an earlier call scored
\* with other targets, each flag of each chunk is set iff the corresponding
\* boost was applied to the chunk in this call.
C13_FlagsReflectThisCall ==
    sc_pc = "done" =>
      \A i \in 1..Len(sc_in) :
        LET c == sc_chunks[i]
        IN  /\ FlagSet(c.recency_boost)
                 <=> YearIsRecent(sc_in[i], current_year)
            /\ FlagSet(c.section_match_boost)
                 <=> ( sc_target_section # None
                       /\ sc_in[i].section = sc_target_section )
            /\ FlagSet(c.paper_match_boost)
                 <=> sc_in[i].paper_type = sc_target_paper_format

\* C14: a scorer call leaves every chunk of the list it is given unchanged;
\* this covers the chunks of a first call and the scored chunks that a
\* first call returned and a later call is given.
C14_InputsUnchanged ==
    sc_pc = "done" => sc_chunks = sc_in

\* C15: a chunk scored with the section match boost applied has an
\* adjusted_similarity at least that of the same chunk scored with the same
\* year and paper format but without the section match boost.
C15_SectionBoostMonotone ==
    sc_pc = "done" =>
      \A i \in 1..Len(sc_in) :
        ( sc_target_section # None /\ sc_in[i].section = sc_target_section )
        => DblLe(AdjustedOf(ScoreChunk(sc_in[i], None,
                                       sc_target_paper_format, current_year)),
                 AdjustedOf(sc_chunks[i]))

----------------------------------------------------------------------------
(* Claims about the formatter and the prompt enhancer *)

\* C16: format([]) returns the empty string, score([]) returns the empty
\* list, and an enhancer call whose retrieval returns no chunks returns the
\* base prompt exactly, with nothing appended.
C16_EmptyInputLaws ==
    /\ (fm_pc \notin {"idle", "called"} /\ Len(fm_in) = 0)
         => (fm_pc = "done" /\ fm_out = <<>>)
    /\ (sc_pc \notin {"idle", "called"} /\ Len(sc_in) = 0)
         => (sc_pc = "done" /\ sc_out = <<>>)
    /\ (en_pc \notin {"idle", "retrieving"} /\ outcome = "returned"
          /\ Len(ret) = 0)
         => (en_pc = "done" /\ en_out = en_base_prompt)

\* an enhancer call whose searches all succeeded and found nothing: the
\* scorer ran on the empty list and the non-empty base prompt came back
C16_Witness ==
    /\ en_pc = "done"
    /\ NoCallFailed
    /\ StageIssued("C")
    /\ Len(results) = 0
    /\ Len(ret) = 0
    /\ Len(en_base_prompt) > 0
    /\ en_out = en_base_prompt

\* positions in the formatter's list lines of the lines of reference i
HeaderIdx(i) == PreambleLen + BlockLen * (i - 1) + 1
RelevanceIdx(i) == HeaderIdx(i) + 1
ContentIdx(i) == HeaderIdx(i) + 3

\* the header of reference i showing exactly the non-null fields of chunk
\* among year, paper_type and section, in that order
HeaderOfNonNull(i, chunk) ==
    LET shown ==
          (IF chunk.year # NoYear THEN <<chunk.year[1]>> ELSE <<>>)
          \o (IF chunk.paper_type # None
              THEN <<<<TitleCase(chunk.paper_type)>>>> ELSE <<>>)
          \o (IF chunk.section # None
              THEN <<<<TitleCase(chunk.section)>>>> ELSE <<>>)
    IN  <<"### Reference ", ToString(i)>>
        \o (IF Len(shown) = 0 THEN <<>>
            ELSE <<" (">> \o JoinTokens(<<", ">>, shown) \o <<")">>)

HeadersShowNonNull ==
    \A i \in 1..Len(fm_in) :
        /\ HeaderIdx(i) <= Len(fm_lines)
        /\ fm_lines[HeaderIdx(i)] = HeaderOfNonNull(i, fm_in[i])

\* C17: for chunks whose year, paper_type and section may each
\* be null, a formatter call returns a string without raising and every
\* header shows exactly the non-null fields.
C17_FormatNeverRaises ==
    fm_pc \notin {"idle", "called"} =>
        (fm_pc = "done" /\ HeadersShowNonNull)

\* the lines of the formatter's output that open a reference block
HeaderLines ==
    {k \in 1..Len(fm_lines) :
        Len(fm_lines[k]) >= 2 /\ fm_lines[k][1] = "### Reference "}

\* the percentage of the value the claim names: adjusted_similarity when
\* the chunk has it, raw similarity otherwise
RelevancePercent(chunk) ==
    IF chunk.adjusted_similarity # <<>>
    THEN DblScaled(chunk.adjusted_similarity[1], 100)
    ELSE RoundHalfEven(chunk.similarity * 100, SimScale)

\* C18: the string a formatter call returns holds exactly one reference
\* block per input chunk, numbered 1..n in input order, and the relevance
\* line of block i shows the percentage of chunk i's adjusted_similarity
\* when it has one and of its raw similarity otherwise.
C18_OneBlockPerChunk ==
    (fm_pc = "done" /\ Len(fm_in) > 0) =>
      /\ fm_out = JoinTokens(<<"\n">>, fm_lines)
      /\ Cardinality(HeaderLines) = Len(fm_in)
      /\ \A i \in 1..Len(fm_in) :
           /\ HeaderIdx(i) \in HeaderLines
           /\ fm_lines[HeaderIdx(i)][2] = ToString(i)
           /\ \A j \in 1..Len(fm_in) :
                i < j => HeaderIdx(i) < HeaderIdx(j)
           /\ SubSeq(fm_lines[RelevanceIdx(i)], 1, 3)
                = <<"Relevance: ", ToString(RelevancePercent(fm_in[i])), "%">>
           /\ fm_lines[ContentIdx(i)][1] = fm_in[i].content[1]

\* a returned call on two chunks: one with an adjusted_similarity whose
\* percentage differs from that of its raw similarity, one without
C18_Witness ==
    /\ fm_pc = "done"
    /\ Len(fm_in) = 2
    /\ \E i, j \in 1..2 :
          /\ fm_in[i].adjusted_similarity # <<>>
          /\ RelevancePercent(fm_in[i])
               # RoundHalfEven(fm_in[i].similarity * 100, SimScale)
          /\ fm_in[j].adjusted_similarity = <<>>
          /\ fm_lines[RelevanceIdx(j)][2]
               = ToString(RoundHalfEven(fm_in[j].similarity * 100, SimScale))
    /\ Cardinality(HeaderLines) = 2

\* the content line the formatter emitted for chunk i
Emitted(i) == fm_lines[ContentIdx(i)]

\* 0-based position of the last period within the first max_chunk_chars
\* characters of content, -1 when there is none
LastPeriodInBudget(content) ==
    RFind(SubSeq(content, 1, Min(Len(content), max_chunk_chars)), ".")

\* the prefix up to and including that period is at least 70% of
\* max_chunk_chars long
QualifyingBoundary(content) ==
    /\ LastPeriodInBudget(content) >= 0
    /\ (LastPeriodInBudget(content) + 1) * 10 >= max_chunk_chars * 7

\* the characters of content that the stated rule keeps
KeptAsStated(content) ==
    IF Len(content) <= max_chunk_chars THEN content
    ELSE IF QualifyingBoundary(content)
         THEN SubSeq(content, 1, LastPeriodInBudget(content) + 1)
         ELSE SubSeq(content, 1, max_chunk_chars)

\* C19: content of at most max_chunk_chars characters is emitted verbatim;
\* of longer content the emitted text keeps the characters up to and
\* including the last period of the first max_chunk_chars characters when
\* that prefix is at least 70% of max_chunk_chars long, and exactly the first
\* max_chunk_chars characters otherwise (an ellipsis marker may follow the
\* kept characters).
C19_SentenceAwareTruncation ==
    fm_pc = "done" =>
      \A i \in 1..Len(fm_in) :
        LET content == fm_in[i].content
        IN  IF Len(content) <= max_chunk_chars
            THEN Emitted(i) = content
            ELSE \/ Emitted(i) = KeptAsStated(content)
                 \/ Emitted(i) = KeptAsStated(content) \o Ellipsis

\* the emitted text is a proper prefix of the content followed by the
\* ellipsis marker; the prefix has Len(Emitted(i)) - 3 characters
MarkerAppended(i) ==
    LET e == Emitted(i)
        n == Len(e) - Len(Ellipsis)
    IN  /\ n >= 0
        /\ n < Len(fm_in[i].content)
        /\ e = SubSeq(fm_in[i].content, 1, n) \o Ellipsis

\* the content was cut after a period before the budget was used up
CutAtSentence(i) ==
    LET content == fm_in[i].content
        n == LastPeriodInBudget(content) + 1
    IN  /\ Len(content) > max_chunk_chars
        /\ n >= 1
        /\ SubSeq(Emitted(i), 1, Min(n, Len(Emitted(i))))
             = SubSeq(content, 1, n)
        /\ Len(Emitted(i)) < max_chunk_chars

\* C20: the content emitted for a chunk is never longer than
\* max_chunk_chars; the ellipsis marker is appended only to content that
\* was hard-truncated at max_chunk_chars; content cut at a sentence
\* boundary ends with that period.
C20_WithinBudget ==
    fm_pc = "done" =>
      \A i \in 1..Len(fm_in) :
        /\ Len(Emitted(i)) <= max_chunk_chars
        /\ MarkerAppended(i)
             => Len(Emitted(i)) - Len(Ellipsis) = max_chunk_chars
        /\ CutAtSentence(i)
             => Emitted(i) = SubSeq(fm_in[i].content, 1,
                                    LastPeriodInBudget(fm_in[i].content) + 1)

----------------------------------------------------------------------------
(* Claims about the query builder *)

SameArguments(a, b) ==
    /\ a.paper_format = b.paper_format
    /\ a.section = b.section
    /\ a.topics = b.topics
    /\ a.difficulty = b.difficulty

    /\ q_log[1].result = q_log[3].result

RecognisedFormats == {"paper_1", "paper_2", "oral"}

\* the sections that have a descriptor of their own under a paper format
SectionsOf(pf) ==
    IF pf = "oral" THEN {"reading_aloud", "sbc", "conversation"}
    ELSE {"section_a", "section_b", "section_c"}

\* the header of a paper format and the descriptor it uses without a section
FormatHeader(pf) == FormatParts(pf, None)[1]
GenericDescriptor(pf) == FormatParts(pf, None)[2]

\* every piece of vocabulary the builder can put into a query: headers,
\* section descriptors, difficulty descriptors
StaticVocabulary ==
    ({FormatParts(pf, sec)[k] : pf \in RecognisedFormats, sec \in QuerySections,
                                k \in 1..2}
     \cup {DifficultyDescriptor(d) : d \in QueryDifficulties}) \ {""}

HasVocabulary(q) == \E k \in 1..Len(q) : q[k] \in StaticVocabulary

\* C22: a recognised paper_format with a null or unrecognised section gives
\* that format's header and its generic descriptor; an unrecognised
\* paper_format gives a non-empty query that still holds vocabulary.
C22_GenericFallback ==
    \A i \in 1..Len(q_log) :
        /\ (q_log[i].paper_format \in RecognisedFormats
              /\ q_log[i].section \notin SectionsOf(q_log[i].paper_format))
           => /\ Len(q_log[i].result) >= 3
              /\ q_log[i].result[1] = FormatHeader(q_log[i].paper_format)
              /\ q_log[i].result[2] = " "
              /\ q_log[i].result[3] = GenericDescriptor(q_log[i].paper_format)
        /\ q_log[i].paper_format \notin RecognisedFormats
           => /\ Len(q_log[i].result) > 0
              /\ HasVocabulary(q_log[i].result)

\* sub occurs in q as a run of consecutive tokens
ContainsRun(q, sub) ==
    \E k \in 0..(Len(q) - Len(sub)) :
        \A j \in 1..Len(sub) : q[k + j] = sub[j]

EndsWithRun(q, sub) ==
    /\ Len(q) >= Len(sub)
    /\ \A j \in 1..Len(sub) : q[Len(q) - Len(sub) + j] = sub[j]

\* the clause that lists the topics under a label
TopicsClause(label, ts) ==
    <<label>> \o JoinTokens(<<", ">>, [i \in 1..Len(ts) |-> <<ts[i]>>])

\* the clause "Difficulty: {difficulty} {descriptor}", the descriptor being
\* empty for a difficulty that the static map does not hold
DifficultyClause(d) ==
    <<"Difficulty: ", d, " ">>
    \o (IF DifficultyDescriptor(d) = "" THEN <<>> ELSE <<DifficultyDescriptor(d)>>)

ClauseLaw(label) ==
    \A i \in 1..Len(q_log) :
        /\ TruthyList(q_log[i].topics)
           <=> (\E k \in 1..Len(q_log[i].result) : q_log[i].result[k] = label)
        /\ TruthyList(q_log[i].topics)
           => ContainsRun(q_log[i].result, TopicsClause(label, q_log[i].topics[1]))
        /\ EndsWithRun(q_log[i].result, DifficultyClause(q_log[i].difficulty))

\* C23 as stated: the query holds a "Focus topics: ..." clause listing every
\* topic exactly when topics is non-empty, and ends with the difficulty clause.
C23_FocusTopicsClause == ClauseLaw("Focus topics: ")

\* C23: the query holds a "Topics and themes: ..." clause listing every topic
\* exactly when topics is non-empty, and always ends with
\* "Difficulty: {difficulty} {descriptor}", the descriptor taken from the
\* static difficulty map and empty for a difficulty the map does not hold.
C23_TopicsClause == ClauseLaw("Topics and themes: ")

C23_Witness ==
    /\ Len(q_log) = 1
    /\ q_log[1].topics = TopicList(<<"environment", "technology">>)
    /\ ContainsRun(q_log[1].result,
                   <<"Topics and themes: ", "environment", ", ", "technology">>)
    /\ EndsWithRun(q_log[1].result,
                   <<"Difficulty: ", "standard", " ", "moderate balanced typical">>)

----------------------------------------------------------------------------
(* Claims about repeated scoring and formatting *)

\* C25 as stated: scoring and formatting the same chunk list twice with the
\* same targets gives the same string both times; the second pass leaves
\* every adjusted score, every boost flag and the order as the first pass
\* made them.
C25_FormatIdempotent ==
    \A i \in 1..Len(ctx_log) : \A j \in 1..Len(ctx_log) :
        /\ ctx_log[i].text = ctx_log[j].text
        /\ ctx_log[i].scored = ctx_log[j].scored

\* the flags of a dict
FlagsOf(c) ==
    <<c.recency_boost, c.section_match_boost, c.paper_match_boost>>

\* C25: scoring and formatting the same chunk list twice with the same
\* targets in the same calendar year gives the same string both times, with
\* the same adjusted scores, flags and order.  Whenever the passes are made,
\* no pass compounds the boosts of the pass before (every adjusted score is
\* the raw similarity times each factor that applies in the year of the
\* pass, once, capped at 1.0) and the second pass leaves the flags of every
\* dict as the first pass set them.
C25_FormatIdempotentInYear ==
    /\ \A i \in 1..Len(ctx_log) : \A j \in 1..Len(ctx_log) :
          /\ ctx_log[i].at = ctx_log[j].at =>
                /\ ctx_log[i].text = ctx_log[j].text
                /\ ctx_log[i].scored = ctx_log[j].scored
          /\ \A k \in 1..Len(ctx_log[j].chunks) :
                FlagsOf(ctx_log[i].chunks[k]) = FlagsOf(ctx_log[j].chunks[k])
    /\ \A j \in 1..Len(ctx_log) :
          \A k \in 1..Len(ctx_log[j].scored) :
              LET c == ctx_log[j].scored[k]
                  r == IF YearIsRecent(c, ctx_log[j].at) THEN 11 ELSE 10
                  s == IF sc_target_section # None
                            /\ c.section = sc_target_section
                       THEN 23 ELSE 20
                  p == IF c.paper_type = sc_target_paper_format
                       THEN 21 ELSE 20
              IN  DblScaled(AdjustedOf(c), AdjScale)
                    = Min(1 * AdjScale, c.similarity * r * s * p)

\* two passes in the same year over a list with a boosted chunk
C25_Witness ==
    /\ Len(ctx_log) = 2
    /\ ctx_log[1].at = ctx_log[2].at
    /\ Len(ctx_log[2].scored) >= 2
    /\ ctx_log[2].text # <<>>
    /\ \E k \in 1..Len(ctx_log[2].scored) :
          /\ ctx_log[2].scored[k].section_match_boost = "True"
          /\ ctx_log[2].scored[k].paper_match_boost = "True"
          /\ DblLt(ctx_log[2].scored[k].adjusted_similarity[1], DblOne)
          /\ DblLt(SimilarityOf(ctx_log[2].scored[k]),
                   ctx_log[2].scored[k].adjusted_similarity[1])
    /\ \E k \in 1..(Len(sc_in) - 1) :
          sc_in[k].similarity < sc_in[k + 1].similarity

----------------------------------------------------------------------------
(* Claims about the candidates of the fallback ladder *)

\* the chunk is the dict built from the record
BuiltFrom(chunk, record) ==
    /\ chunk.content = record.content
    /\ chunk.source_file = record.source_file
    /\ chunk.paper_type = record.paper_type
    /\ chunk.section = record.section
    /\ chunk.year = record.year
    /\ chunk.similarity = record.similarity

\* the records the executed strategies returned, in the order A, B, C, one
\* record per key
DedupUnion ==
    Merge(<<>>, ResponseOf("A") \o ResponseOf("B") \o ResponseOf("C"))

\* C26: when no collaborator fails, every returned chunk is a record that an
\* executed strategy returned, and when the deduplicated union of the records
\* of the executed strategies has at most limit elements, every element of
\* the union is returned exactly once.
C26_LadderUnion ==
    (Finished /\ NoCallFailed) =>
        /\ \A n \in 1..Len(ret) :
              \E i \in SearchIdx : \E k \in 1..Len(calls[i].response) :
                  BuiltFrom(ret[n], calls[i].response[k])
        /\ Len(DedupUnion) <= CallerLimit =>
              \A u \in 1..Len(DedupUnion) :
                  Cardinality({n \in 1..Len(ret) :
                                  BuiltFrom(ret[n], DedupUnion[u])}) = 1

\* every search returned at most as many records as its limit argument
SearchHonoursLimit ==
    \A i \in SearchIdx : Len(calls[i].response) <= calls[i].limit

\* C28: if every vector_search call returns at most its candidate limit
\* 2 x limit, the merged candidate list never holds more than
\* max(2 x limit, 3 x limit - 1) records, for any limit >= 1.
C28_CandidateVolume ==
    (SearchHonoursLimit /\ limit >= 1) =>
        Len(results) <= Max(2 * limit, 3 * limit - 1)

\* strategy B ran because A returned fewer than limit records, and the
\* candidates number 3 x limit - 1
C28_Witness ==
    /\ Finished
    /\ NoCallFailed
    /\ limit = 1
    /\ StageIssued("B")
    /\ SearchHonoursLimit
    /\ Len(results) = 3 * limit - 1

\* the merged candidates as the scorer returns them
ScoredCandidates ==
    apply_relevance_scoring(ContextChunks(results), section, paper_format,
                            current_year)

\* C29: when no collaborator fails, the returned list has exactly
\* min(limit, number of merged candidates) chunks, is sorted by
\* adjusted_similarity descending, and no merged candidate that was dropped
\* has an adjusted_similarity above that of a returned chunk.
C29_BestByAdjusted ==
    (Finished /\ NoCallFailed) =>
        /\ Len(ret) = Min(CallerLimit, Len(results))
        /\ \A i, j \in 1..Len(ret) :
              i < j => DblLe(AdjustedOf(ret[j]), AdjustedOf(ret[i]))
        /\ \A k \in (Len(ret) + 1)..Len(ScoredCandidates) :
              \A n \in 1..Len(ret) :
                  DblLe(AdjustedOf(ScoredCandidates[k]), AdjustedOf(ret[n]))

\* every search returned only records of the paper type it filtered on; a
\* null filter admits every record
SearchHonoursPaperType ==
    \A i \in SearchIdx :
        TruthyStr(calls[i].paper_type) =>
            \A k \in 1..Len(calls[i].response) :
                calls[i].response[k].paper_type = calls[i].paper_type

\* C30: if vector_search honours its paper_type filter, every returned chunk
\* has paper_type equal to the requested paper_format and carries
\* paper_match_boost, and so does every scored candidate.
C30_PaperTypeUniform ==
    (Finished /\ outcome = "returned" /\ SearchHonoursPaperType) =>
        /\ \A n \in 1..Len(ret) :
              /\ ret[n].paper_type = paper_format
              /\ ret[n].paper_match_boost = "True"
        /\ NoCallFailed =>
              \A k \in 1..Len(ScoredCandidates) :
                  ScoredCandidates[k].paper_match_boost = "True"

\* chunks of all three strategies are returned
C30_Witness ==
    /\ Finished
    /\ NoCallFailed
    /\ StageIssued("B")
    /\ StageIssued("C")
    /\ SearchHonoursPaperType
    /\ Len(ret) = 2
    /\ Len(ResponseOf("C")) > 0
    /\ \A n \in 1..Len(ret) : ret[n].paper_match_boost = "True"

----------------------------------------------------------------------------
(* Claims about the real vector search *)

\* what the database did in the search call calls[i]
BackendOf(i) == backend[i - 1]

Answered == {i \in SearchIdx : calls[i].status # "pending"}

\* the search failed with SupabaseError and retrieve turned that into []
FailedAsError(i) ==
    /\ calls[i].status = "SupabaseError"
    /\ Finished /\ outcome = "returned" /\ ret = <<>>

\* C27 as stated: when the backend is unavailable or the server-side search
\* function is missing, vector_search fails with SupabaseError instead of
\* returning a list, and retrieve converts the failure to the empty list.
C27_FailureIsError ==
    \A i \in Answered :
        BackendOf(i) \in {"unavailable", "unconfigured", "function_missing"}
            => FailedAsError(i)

\* C27: when the backend is unavailable or not configured, vector_search
\* fails with SupabaseError and retrieve converts the failure to the empty
\* list; when the server-side search function is missing, vector_search
\* returns the empty list and retrieve goes on with its ladder.
C27_FailureOrEmptyList ==
    \A i \in Answered :
        /\ BackendOf(i) \in {"unavailable", "unconfigured"} => FailedAsError(i)
        /\ BackendOf(i) = "function_missing"
              => (calls[i].status = "ok" /\ calls[i].response = <<>>)
        /\ BackendOf(i) = "rows" => calls[i].status = "ok"

\* the function is missing in strategy A, the ladder goes on, and the
\* backend cannot be reached in strategy C after candidates were collected
C27_Witness ==
    /\ Finished
    /\ Len(backend) = 3
    /\ backend[1] = "function_missing"
    /\ backend[2] = "rows"
    /\ backend[3] = "unavailable"
    /\ Len(results) > 0
    /\ supabase_client # None
    /\ ret = <<>>

----------------------------------------------------------------------------
(* Claims about concurrent retrieve calls *)

\* what a call running alone returns when its searches answer with evs, from
\* the given stage on; <<>> while the answers do not reach the end of the
\* ladder
RECURSIVE SoloLadder(_, _, _, _)
SoloLadder(stage, rs, evs, sec) ==
    IF Len(evs) = 0 THEN <<>>
    ELSE IF Head(evs).status # "ok" THEN <<>>
    ELSE LET merged == Collected(stage, rs, Head(evs).response)
             nxt == NextStage(stage, merged, ConcLimit, sec)
         IN  IF nxt = "finish"
             THEN FinalChunks(merged, sec, ConcPaperFormat, ConcLimit,
                              current_year)
             ELSE SoloLadder(nxt, merged, Tail(evs), sec)

\* what call c would return alone on the collaborator responses it received
SoloReturn(c) ==
    IF cc[c].embed # "ok" THEN <<>>
    ELSE SoloLadder("A", <<>>, cc[c].events, cc[c].section)

\* how call c would end alone on the collaborator responses it received:
\* the first collaborator call that raised meets the except clauses
SoloOutcome(c) ==
    LET bad == {i \in 1..Len(cc[c].events) : cc[c].events[i].status # "ok"}
    IN  IF cc[c].embed # "ok" THEN Handler(cc[c].embed)
        ELSE IF bad = {} THEN "returned"
        ELSE Handler(cc[c].events[CHOOSE i \in bad :
                                     \A j \in bad : i <= j].status)

\* the threads that run retrieve_relevant_context
RetrieveCalls == {c \in DOMAIN cc : cc[c].fn = "retrieve_relevant_context"}

ReturnsAsAlone ==
    \A c \in RetrieveCalls :
        cc[c].pc = "done" =>
            (cc[c].outcome = SoloOutcome(c) /\ cc[c].ret = SoloReturn(c))

\* C24 as stated: in every interleaving of concurrent retrieve calls no
\* module-level variable is written by any call, and each call returns what
\* it would return alone on the same collaborator responses.
C24_NoSharedState ==
    /\ \A c \in RetrieveCalls : ~cc[c].wrote
    /\ ReturnsAsAlone

\* C24: in every interleaving of concurrent retrieve calls, and of calls of
\* the other functions of supabase.py that ask for the client, the only
\* module-level variable written is the client singleton _supabase_client,
\* written by the calls that found it unset and the credentials configured,
\* and holding afterwards the client of one of them; it is never written
\* once a call has found it set; a retrieve call that finds it unset and
\* the credentials missing writes nothing and returns []; each retrieve call
\* returns what it would return alone on the same collaborator responses.
C24_OnlyClientSingleton ==
    /\ ReturnsAsAlone
    /\ \A c \in RetrieveCalls :
          (cc[c].pc = "done" /\ cc[c].embed = "ok" /\ cc[c].client = None
             /\ Len(cc[c].events) = 1)
            => (~cc[c].wrote /\ cc[c].outcome = "returned"
                  /\ cc[c].ret = <<>>)
    /\ \A c \in DOMAIN cc :
          cc[c].wrote =>
              supabase_client \in
                  {ClientOf(d) : d \in {e \in DOMAIN cc : cc[e].wrote}}
    /\ supabase_client = "client0" => \A c \in DOMAIN cc : ~cc[c].wrote
    /\ \A c \in DOMAIN cc : cc[c].pc = "rpc" => cc[c].client # None
    /\ RetrieveIdle /\ ScoreIdle /\ FormatIdle /\ EnhanceIdle

\* two calls raced for the client, both wrote it, and both returned chunks
C24_Witness ==
    /\ \A c \in DOMAIN cc :
          /\ cc[c].pc = "done"
          /\ cc[c].wrote
          /\ Len(cc[c].ret) > 0
    /\ Len(cc[1].events) = 3
    /\ cc[1].ret # cc[2].ret
====
